---- MODULE Spec2Model ----
(***************************************************************************)
(* Resilience and self-modification core of the agent process:             *)
(*   - CircuitBreaker and the `unstoppable` wrapper (resilience.py)        *)
(*   - the crash-loop guard and the self-modification cycle (evolution.py) *)
(*   - the process start sequence (bot.py)                                 *)
(* The specifications share the variables:                                 *)
(*   SpecCB    the CircuitBreaker class driven through its three methods   *)
(*   SpecWrap  invocations of one wrapped operation (SpecRetry: one)       *)
(*   SpecGuard process starts, modification cycles, the stability timer    *)
(*   SpecEvo   the writers of the Evolution Document                       *)
(*   SpecConc  invocations of one operation in flight at the same time     *)
(*   SpecTwin  one scenario through sync_wrapper, then async_wrapper       *)
(***************************************************************************)
EXTENDS Integers, Sequences, FiniteSets, TLC

(***************************************************************************)
(* Program constants (resilience.py:24-33)                                 *)
(***************************************************************************)
INITIAL_BACKOFF == 1
MAX_BACKOFF == 60
BACKOFF_MULTIPLIER == 2
FAILURE_THRESHOLD == 5
SUCCESS_THRESHOLD == 2
TIMEOUT_DURATION == 300

(***************************************************************************)
(* Bounds of the model                                                     *)
(***************************************************************************)
\* SpecCB: the clock stops advancing here, and the counters stop growing.
MaxTimeCB == 910
MaxFailures == 7
MaxSuccesses == 3

\* SpecWrap: max_retries ranges over 0..MaxRetries, with MaxInvocations
\* invocations per behaviour; idle time passes up to MaxTimeWrap.
MaxRetries == 5
MaxInvocations == 2
MaxTimeWrap == 400
\* SpecRetry: one invocation, max_retries ranges over 0..MaxRetriesLong.
MaxRetriesLong == 8
\* SpecGuard: modification cycles per behaviour; every list of up to
\* MaxPatches patches is a possible reply (longer ones are listed in Replies).
MaxCycles == 2
MaxPatches == 1

\* Concurrent callers of the wrapped operation.
Tasks == {1, 2}

\* Operation names (keys of the circuit_breakers registry).
Names == {"fetch_prices", "fetch_news"}

\* CircuitBreaker.last_failure_time = None
NoTime == 0
\* A registry key that is not in the dict.
Absent == [absent |-> TRUE]

VARIABLES
    now,                \* time.time(), whole seconds, always > 0
    circuit_breakers,   \* resilience.circuit_breakers: name -> breaker | Absent
    func_name,          \* the operation name this behaviour exercises
    cb_call,            \* SpecCB: the last CircuitBreaker method called
    cb_ret,             \* SpecCB: what the last can_execute() returned
    consec_failures,    \* SpecCB: record_failure calls since the last record_success
    probe,              \* SpecCB: "none" | "admitted" (timeout probe let through,
                        \*         nothing recorded since) | "recorded"
    probe_trues,        \* SpecCB: can_execute() = True answers since the timeout
                        \*         elapsed with no record in between
    succ_since_probe,   \* SpecCB: consecutive record_success after the probe
    \* ---- the wrapped operation and its decorator arguments (fixed per behaviour)
    max_retries,        \* unstoppable(max_retries=...)
    critical,           \* unstoppable(critical=...)
    is_async,           \* asyncio.iscoroutinefunction(func): which wrapper is used
    op_error,           \* the exception the operation raises when it fails
    \* ---- module state of resilience.py and the persisted Evolution Document
    performance_metrics,   \* name -> metrics | Absent
    error_patterns,        \* <<name, error type>> -> pattern | Absent
    evo_file,              \* evolution.json: the Evolution Document | Absent
    calls_left,            \* invocations this behaviour may still begin
    \* ---- one wrapper invocation per task
    pc,                 \* "idle" | "running" | "sleeping" | "fix_sleeping" |
                        \* "fix_running" | "done"
    attempt,            \* loop variable of `for attempt in range(max_retries)`
    backoff,            \* local variable backoff
    last_error,         \* local variable last_error (its message)
    start_time,         \* local variable start_time
    wake,               \* when the pending sleep ends
    admitted,           \* can_execute() returned True for this invocation
    outcome,            \* "none" | "result" | "fallback" | "raised"
    log,                \* what this invocation did, in order
    \* ---- durable state of the self-modification pipeline (disk)
    files,              \* source files in _APP_DIR: name -> content | Absent
    backup_dir,         \* _BACKUP_DIR: Absent | the files in it
    modified_marker,    \* .code_modified: Absent | its payload
    crashed_marker,     \* .code_crashed exists
    \* ---- the process
    proc,               \* "down" | "booting" | "imported" | "guarded" | "running"
    boot_log,           \* modules executed by this process, in order, and the
                        \* guard's run ("check_and_rollback")
    uptime,             \* seconds since the process started
    timer_due,          \* uptime at which _clear_markers_after_delay wakes
    timer_fired,        \* the stability timer of this process has cleared the markers
    cycles_left,        \* modification cycles this behaviour may still run
    \* ---- history
    pre_cycle,          \* the source files as the cycle that wrote the modified
                        \* marker found them
    boot_files,         \* the source files as this process found them at its start
    boot_kind,          \* what the guard found: "none" | "CLEAN" | "MONITORING" |
                        \* "ROLLED_BACK" | "RAISED" (it ended with an exception)
    cycle,              \* the modification cycle this process has just run: the
                        \* collaborator's reply and the disk as the cycle found
                        \* it | NoCycle | PastCycle
    kept,               \* the source files as they were when a stability timer
                        \* last cleared the markers (as deployed, before that)
    unsettled,          \* the source files overwritten by modification cycles
                        \* since the modified marker was last removed (by the
                        \* stability timer or by a rollback)
    \* ---- the Evolution Document's writers
    default_history,    \* evolution.DEFAULT_EVOLUTION["reflection_history"]: the
                        \* list object of this process (evolution.py:41)
    disk_full,          \* SpecEvo: the data volume has no space left
    evo_runs,           \* SpecEvo: runs of each writer and events so far
    evo_bak,            \* SpecEvo: the text of evolution.json.bak | Absent
    reflect_pc,         \* SpecEvo: where reflect_and_improve stands: "idle" |
                        \* "loaded" (line 421 done) | "saved" (line 554 done)
    reflect_evo,        \* SpecEvo: what load_evolution read at line 421
    \* ---- history of the shared breaker
    serial_breaker,     \* SpecConc: the breaker that the calls made so far by
                        \* all tasks leave when one caller makes them one after
                        \* the other, in the order the event loop ran them
    \* ---- history of a scenario run through both wrappers
    run_trace,          \* SpecTwin: the invocations of the current run: when
                        \* each began and ended, its log and what it returned
    twin                \* SpecTwin: the finished run of the synchronous
                        \* wrapper: its invocations, and the breakers, failure
                        \* tracker and metrics it left | NoTwin

cbVars == <<cb_call, cb_ret, consec_failures, probe, probe_trues, succ_since_probe>>

cfgVars == <<max_retries, critical, is_async, op_error>>

wrapVars == <<performance_metrics, error_patterns, evo_file,
              calls_left, pc, attempt, backoff, last_error, start_time, wake,
              admitted, outcome, log>>

guardVars == <<files, backup_dir, modified_marker, crashed_marker, proc, boot_log,
               uptime, timer_due, timer_fired, cycles_left, pre_cycle, boot_files,
               boot_kind, cycle, kept, unsettled>>

evoVars == <<default_history, disk_full, evo_runs, evo_bak, reflect_pc, reflect_evo>>

concVars == <<serial_breaker, run_trace, twin>>

vars == <<now, circuit_breakers, func_name, cbVars, cfgVars, wrapVars, guardVars,
          evoVars, concVars>>

(***************************************************************************)
(* CircuitBreaker (resilience.py:40-93)                                    *)
(***************************************************************************)
NewBreaker ==
    [failures |-> 0, successes |-> 0, is_open |-> FALSE,
     last_failure_time |-> NoTime]

\* A lookup that makes a new breaker every time.
GetCircuitBreaker_AlwaysCreates(reg, name) == [reg EXCEPT ![name] = NewBreaker]

\* get_circuit_breaker: the registry after the lookup (created on first use).
GetCircuitBreaker(reg, name) ==
    IF reg[name] = Absent THEN [reg EXCEPT ![name] = NewBreaker] ELSE reg

\* A record_success that counts consecutive failures: it clears the failure
\* counter of a closed breaker.
RecordSuccess_ClearsFailures(cb) ==
    LET s == cb.successes + 1 IN
    IF cb.is_open /\ s >= SUCCESS_THRESHOLD
    THEN [cb EXCEPT !.is_open = FALSE, !.failures = 0, !.successes = 0]
    ELSE IF cb.is_open THEN [cb EXCEPT !.successes = s]
    ELSE [cb EXCEPT !.successes = s, !.failures = 0]

\* record_success: the breaker after the call.
RecordSuccess(cb) ==
    LET s == cb.successes + 1 IN
    IF cb.is_open /\ s >= SUCCESS_THRESHOLD
    THEN [cb EXCEPT !.is_open = FALSE, !.failures = 0, !.successes = 0]
    ELSE [cb EXCEPT !.successes = s]

\* record_failure at time t: the breaker after the call.
RecordFailure(cb, t) ==
    LET f == cb.failures + 1 IN
    [cb EXCEPT !.failures = f,
               !.successes = 0,
               !.last_failure_time = t,
               !.is_open = IF f >= FAILURE_THRESHOLD THEN TRUE ELSE cb.is_open]

\* can_execute: the timeout test of line 76 (None and 0.0 are falsy).
TimeoutPassed(cb, t) ==
    cb.last_failure_time # NoTime /\ t - cb.last_failure_time > TIMEOUT_DURATION

\* can_execute at time t: the value returned.
CanExecuteRet(cb, t) ==
    IF ~cb.is_open THEN TRUE ELSE TimeoutPassed(cb, t)

\* A can_execute whose probe closes the breaker and keeps the failure count.
CanExecuteCb_KeepsFailures(cb, t) ==
    IF cb.is_open /\ TimeoutPassed(cb, t)
    THEN [cb EXCEPT !.is_open = FALSE]
    ELSE cb

\* A can_execute that counts a refusal as a failure.
CanExecuteCb_CountsRefusal(cb, t) ==
    IF cb.is_open /\ TimeoutPassed(cb, t)
    THEN [cb EXCEPT !.is_open = FALSE, !.failures = 0]
    ELSE IF cb.is_open THEN [cb EXCEPT !.failures = @ + 1] ELSE cb

\* can_execute at time t: the breaker after the call.
CanExecuteCb(cb, t) ==
    IF cb.is_open /\ TimeoutPassed(cb, t)
    THEN [cb EXCEPT !.is_open = FALSE, !.failures = 0]
    ELSE cb

(***************************************************************************)
(* Exceptions of the wrapped operation, by type(e).__name__ and str(e)     *)
(***************************************************************************)
NoError == [type |-> "NoneType", msg |-> "None"]

Errors ==
    { [type |-> "ValueError",      msg |-> "bad input"],
      [type |-> "HTTPError",       msg |-> "rate limited"],
      [type |-> "TimeoutError",    msg |-> "connection timeout"],
      [type |-> "PermissionError", msg |-> "invalid api key"],
      [type |-> "HTTPError",       msg |-> "429 after connection reset"] }

ErrTypes == {e.type : e \in Errors}

\* The keywords of attempt_auto_fix that occur in a message.
Keywords(msg) ==
    CASE msg = "rate limited"               -> {"rate", "limit"}
      [] msg = "connection timeout"         -> {"connection", "timeout"}
      [] msg = "invalid api key"            -> {"api", "key"}
      [] msg = "429 after connection reset" -> {"429", "connection"}
      [] OTHER                              -> {}

(***************************************************************************)
(* track_performance, track_error (resilience.py:244-288)                  *)
(***************************************************************************)
\* float('inf')
Inf == -1

Min(a, b) == IF a <= b THEN a ELSE b
Max(a, b) == IF a >= b THEN a ELSE b

NewMetrics ==
    [total_calls |-> 0, successful_calls |-> 0, failed_calls |-> 0,
     total_duration |-> 0, fastest |-> Inf, slowest |-> 0]

\* avg_duration is total_duration / successful_calls after every update and is
\* not stored.
TrackPerformance(pm, fn, duration, success) ==
    LET m == IF pm[fn] = Absent THEN NewMetrics ELSE pm[fn] IN
    [pm EXCEPT ![fn] =
        IF success
        THEN [m EXCEPT !.total_calls = @ + 1,
                       !.successful_calls = @ + 1,
                       !.total_duration = @ + duration,
                       !.fastest = IF @ = Inf THEN duration ELSE Min(@, duration),
                       !.slowest = Max(@, duration)]
        ELSE [m EXCEPT !.total_calls = @ + 1, !.failed_calls = @ + 1]]

MaxSamples == 5

TrackError(ep, fn, err, t) ==
    LET key == <<fn, err.type>>
        p == IF ep[key] = Absent
             THEN [count |-> 0, first_seen |-> t, last_seen |-> NoTime,
                   sample_messages |-> <<>>]
             ELSE ep[key]
    IN [ep EXCEPT ![key] =
          [p EXCEPT !.count = @ + 1,
                    !.last_seen = t,
                    !.sample_messages =
                        IF Len(@) < MaxSamples THEN Append(@, err.msg) ELSE @]]

\* get_error_summary: the patterns it reports, each with its count (at most 5
\* keys exist in this model, so the top-5 cut keeps them all).
GetErrorSummary(ep) ==
    {<<k, ep[k].count>> : k \in {k \in DOMAIN ep : ep[k] # Absent}}

(***************************************************************************)
(* attempt_auto_fix (resilience.py:291-330)                                *)
(***************************************************************************)
FixesAttempted(msg) ==
    LET kw == Keywords(msg) IN
    (IF kw \cap {"api", "auth", "key"} # {} THEN {"credential_check"} ELSE {})
    \cup (IF kw \cap {"rate", "limit", "429"} # {} THEN {"rate_limit_backoff"} ELSE {})
    \cup (IF kw \cap {"connection", "timeout", "network"} # {}
          THEN {"network_recovery"} ELSE {})
    \cup (IF kw \cap {"database", "sqlite"} # {} THEN {"db_reset"} ELSE {})

\* The asyncio.sleep calls of attempt_auto_fix, in order.
AutoFixSleeps(msg) ==
    (IF "rate_limit_backoff" \in FixesAttempted(msg) THEN <<60>> ELSE <<>>)
    \o (IF "network_recovery" \in FixesAttempted(msg) THEN <<30>> ELSE <<>>)

\* An attempt_auto_fix that never reports a fix.
AutoFixReturns_Never(msg) == FALSE

\* The value attempt_auto_fix returns.
AutoFixReturns(msg) == FixesAttempted(msg) # {}

(***************************************************************************)
(* learn_from_failure (resilience.py:333-357)                              *)
(***************************************************************************)
FL_CAP == 100

\* A history that is never cut.
LastN_NoCap(seq, cap) == seq

\* failures[-cap:]
LastN(seq, cap) ==
    IF Len(seq) <= cap THEN seq ELSE SubSeq(seq, Len(seq) - cap + 1, Len(seq))

\* A file that json.load cannot read: empty or cut short.
Unreadable == [unreadable |-> TRUE]

\* DEFAULT_EVOLUTION (evolution.py:13-42), cut down to the history lists that
\* this core appends to. failure_learnings and code_changes are not keys of
\* the dict: every reader supplies a new empty list for them. The list under
\* reflection_history is an object of the module.
DefaultEvolution ==
    [failure_learnings |-> <<>>, code_changes |-> <<>>,
     reflection_history |-> default_history]

\* load_evolution (evolution.py:111-123): the document read from the file;
\* dict(DEFAULT_EVOLUTION), a copy that shares the lists of the defaults, when
\* there is no file or it cannot be read.
LoadEvolution(file) ==
    IF file \in {Absent, Unreadable} THEN DefaultEvolution ELSE file

\* The entry learn_from_failure appends, and the document it saves.
LearnedDoc(file, fn, msg, ep, t) ==
    LET evo == LoadEvolution(file)
        failures == Append(evo.failure_learnings,
                           [timestamp |-> t, function |-> fn, error |-> msg,
                            patterns |-> GetErrorSummary(ep)])
    IN [evo EXCEPT !.failure_learnings = LastN(failures, FL_CAP)]

\* A learn_from_failure whose try block does not cover the save.
LearnFromFailure_Unguarded(file, fn, msg, ep, t, saveOk) ==
    IF saveOk
    THEN [file |-> LearnedDoc(file, fn, msg, ep, t), raised |-> FALSE]
    ELSE [file |-> file, raised |-> TRUE]

\* The file after the call and whether the call raised; saveOk is whether
\* load_evolution/save_evolution went through (an exception is swallowed).
LearnFromFailure(file, fn, msg, ep, t, saveOk) ==
    IF saveOk
    THEN [file |-> LearnedDoc(file, fn, msg, ep, t), raised |-> FALSE]
    ELSE [file |-> file, raised |-> FALSE]

(***************************************************************************)
(* Source files, backups and markers (evolution.py:46-58)                  *)
(***************************************************************************)
\* An allow-list that also names the entry point.
MODIFIABLE_FILES_WithEntryPoint ==
    {"moltbook_agent.py", "web_learner.py", "evolution.py", "web_tools.py",
     "claude_client.py", "bot.py"}

MODIFIABLE_FILES ==
    {"moltbook_agent.py", "web_learner.py", "evolution.py", "web_tools.py",
     "claude_client.py"}

\* The files in _APP_DIR that the model tracks: the allow-list and the entry point.
SourceFiles == MODIFIABLE_FILES \cup {"bot.py"}

\* A file's content is a sequence of tokens; "x" is a token the compiler rejects.
Content(text) == [text |-> text]

InitialFiles == [f \in SourceFiles |-> Content(<<"a", "a">>)]

\* os.makedirs(_BACKUP_DIR, exist_ok=True): an existing directory keeps its files.
EmptyDir == [f \in SourceFiles |-> Absent]
MakeDirs(dir) == IF dir = Absent THEN EmptyDir ELSE dir

\* os.listdir(_BACKUP_DIR)
ListDir(dir) == {f \in DOMAIN dir : dir[f] # Absent}

\* A _remove_markers that forgets the crashed marker.
RemoveMarkers_KeepsCrashed(modified, crashed) ==
    [modified |-> Absent, crashed |-> crashed]

\* _remove_markers (evolution.py:91-96): the two markers after it ran over them.
RemoveMarkers(modified, crashed) == [modified |-> Absent, crashed |-> FALSE]

\* delay of _clear_markers_after_delay (bot.py:1328)
STABILITY_DELAY == 120
NoTimer == -1

(***************************************************************************)
(* check_and_rollback (evolution.py:61-81)                                 *)
(***************************************************************************)
\* A guard that tidies up on a clean start: it deletes a crashed marker left
\* alone and a backup directory left behind.
CheckAndRollback_TidiesUp(fs, dir, modified, crashed) ==
    IF modified = Absent
    THEN [files |-> fs, backup_dir |-> Absent, modified |-> modified,
          crashed |-> FALSE, kind |-> "CLEAN"]
    ELSE IF crashed
    THEN [files |-> IF dir = Absent THEN fs
                    ELSE [f \in SourceFiles |->
                            IF f \in ListDir(dir) THEN dir[f] ELSE fs[f]],
          backup_dir |-> Absent,
          modified |-> Absent,
          crashed |-> FALSE,
          kind |-> "ROLLED_BACK"]
    ELSE [files |-> fs, backup_dir |-> dir, modified |-> modified,
          crashed |-> TRUE, kind |-> "MONITORING"]

\* The disk after the guard ran, and what it found.
CheckAndRollback(fs, dir, modified, crashed) ==
    IF modified = Absent
    THEN [files |-> fs, backup_dir |-> dir, modified |-> modified,
          crashed |-> crashed, kind |-> "CLEAN"]
    ELSE IF crashed
    THEN [files |-> IF dir = Absent THEN fs
                    ELSE [f \in SourceFiles |->
                            IF f \in ListDir(dir) THEN dir[f] ELSE fs[f]],
          backup_dir |-> Absent,
          modified |-> RemoveMarkers(modified, crashed).modified,
          crashed |-> RemoveMarkers(modified, crashed).crashed,
          kind |-> "ROLLED_BACK"]
    ELSE [files |-> fs, backup_dir |-> dir, modified |-> modified,
          crashed |-> TRUE, kind |-> "MONITORING"]

(***************************************************************************)
(* self_modify_code (evolution.py:585-732)                                 *)
(***************************************************************************)
\* A containment test that finds the old text at every position.
Occurs_Anywhere(text, old, i) == i <= Len(text)

\* old in content
Occurs(text, old, i) ==
    /\ i + Len(old) - 1 <= Len(text)
    /\ SubSeq(text, i, i + Len(old) - 1) = old

Contains(text, old) == \E i \in 1..Len(text) : Occurs(text, old, i)

\* content.replace(old, new, 1), for old in content
ReplaceFirst(text, old, new) ==
    LET i == CHOOSE k \in 1..Len(text) :
                /\ Occurs(text, old, k)
                /\ \A j \in 1..(k - 1) : ~Occurs(text, old, j)
    IN SubSeq(text, 1, i - 1) \o new \o SubSeq(text, i + Len(old), Len(text))

\* A syntax check that accepts everything.
Compiles_Always(text) == TRUE

\* py_compile.compile(tmp_path, doraise=True) succeeds
Compiles(text) == \A i \in 1..Len(text) : text[i] # "x"

\* An entry of the patches array that is no JSON object: patch.get (line 663)
\* raises AttributeError.
Malformed == [malformed |-> TRUE]

\* The state the patch loop starts from.
LoopStart(fs, dir) ==
    [files |-> fs, backup_dir |-> MakeDirs(dir), applied |-> <<>>, raised |-> FALSE]

\* One iteration of the patch loop (lines 662-707). st is the source files, the
\* backup directory, the list of applied file names so far, and whether the
\* loop was left by an exception.
ApplyPatch(st, patch) ==
    IF patch = Malformed THEN [st EXCEPT !.raised = TRUE]
    ELSE IF patch.old = <<>> \/ patch.new = <<>> \/ patch.old = patch.new THEN st
    ELSE IF patch.file \notin MODIFIABLE_FILES THEN st
    ELSE IF st.files[patch.file] = Absent THEN st
    ELSE IF ~Contains(st.files[patch.file].text, patch.old) THEN st
    ELSE LET new_content ==
               ReplaceFirst(st.files[patch.file].text, patch.old, patch.new)
         IN IF ~Compiles(new_content) THEN st
            ELSE [files |-> [st.files EXCEPT ![patch.file] = Content(new_content)],
                  backup_dir |-> [st.backup_dir EXCEPT
                                    ![patch.file] = st.files[patch.file]],
                  applied |-> Append(st.applied, patch.file),
                  raised |-> FALSE]

\* A patch loop that ends at the first patch it rejects.
RECURSIVE ApplyPatches_StopsAtRejected(_, _)
ApplyPatches_StopsAtRejected(st, patches) ==
    IF patches = <<>> \/ st.raised THEN st
    ELSE IF ApplyPatch(st, Head(patches)) = st THEN st
    ELSE ApplyPatches_StopsAtRejected(ApplyPatch(st, Head(patches)), Tail(patches))

\* The patch loop (lines 661-707): the patches in order, until one raises.
RECURSIVE ApplyPatches(_, _)
ApplyPatches(st, patches) ==
    IF patches = <<>> \/ st.raised THEN st
    ELSE ApplyPatches(ApplyPatch(st, Head(patches)), Tail(patches))

\* The patches the language model may propose.
Patch(file, old, new) == [file |-> file, old |-> old, new |-> new]
Patches ==
    {Patch("claude_client.py", <<"a">>, <<"b">>),
     Patch("web_learner.py", <<"a">>, <<"b">>),
     Patch("claude_client.py", <<"a">>, <<"x">>),     \* does not compile
     Patch("bot.py", <<"a">>, <<"b">>),               \* not on the allow-list
     Patch("claude_client.py", <<>>, <<"b">>),        \* empty old
     Patch("web_learner.py", <<"a">>, <<>>),          \* empty new
     Patch("web_learner.py", <<"a">>, <<"a">>)}       \* old = new
PatchLists == UNION {[1..n -> Patches] : n \in 0..MaxPatches}

(***************************************************************************)
(* The collaborator's reply and _parse_reflection_json (evolution.py:      *)
(* 576-582, 646-653)                                                       *)
(***************************************************************************)
\* A reply is a sequence of tokens: a code fence, the word json, white
\* space, prose, or a JSON object with its patches array.
Fence == [tok |-> "fence"]
JsonWord == [tok |-> "json"]
Space == [tok |-> " "]
Prose == [tok |-> "prose"]
Object(patches) == [tok |-> "object", patches |-> patches]

\* text.strip()
RECURSIVE LStrip(_)
LStrip(text) ==
    IF text # <<>> /\ Head(text) = Space THEN LStrip(Tail(text)) ELSE text

RECURSIVE RStrip(_)
RStrip(text) ==
    IF text # <<>> /\ text[Len(text)] = Space
    THEN RStrip(SubSeq(text, 1, Len(text) - 1)) ELSE text

Strip(text) == RStrip(LStrip(text))

StartsWith(text, tok) == text # <<>> /\ Head(text) = tok

\* text.split(fence)[1], for a text that starts with a fence: what stands
\* between the first fence and the next one (or the end).
RECURSIVE UpToFence(_)
UpToFence(text) ==
    IF text = <<>> \/ Head(text) = Fence THEN <<>>
    ELSE <<Head(text)>> \o UpToFence(Tail(text))

SplitFence1(text) == UpToFence(Tail(text))

\* The text handed to json.loads.
Unfenced(text) ==
    LET t1 == Strip(text)
        t2 == IF StartsWith(t1, Fence) THEN SplitFence1(t1) ELSE t1
        t3 == IF StartsWith(t1, Fence) /\ StartsWith(t2, JsonWord)
              THEN Tail(t2) ELSE t2
    IN Strip(t3)

\* json.loads raises unless the text is one JSON value.
IsJson(text) == Len(text) = 1 /\ text[1].tok = "object"

\* A _parse_reflection_json that does not strip the fence.
ParseOk_NoFence(text) == IsJson(Strip(text))

ParseOk(text) == IsJson(Unfenced(text))

\* data.get("patches", []), for a reply that parses.
ParsedPatches(text) == Unfenced(text)[1].patches

\* The replies of the collaborator: a failed call, bare JSON with any patch
\* list, fenced, padded, prose-wrapped and truncated replies, a patch for
\* text the file never held, and patch lists with an entry that is no object.
LlmFailed == <<[tok |-> "exception"]>>
OnePatch == <<Patch("claude_client.py", <<"a">>, <<"b">>)>>
LongerPatchLists ==
    {<<Patch("claude_client.py", <<"a">>, <<"b">>),
       Patch("claude_client.py", <<"a">>, <<"b">>)>>,
     <<Patch("web_learner.py", <<"a">>, <<"b">>),
       Patch("web_learner.py", <<"a">>, <<"b">>)>>,
     <<Patch("claude_client.py", <<"a">>, <<"b">>),
       Patch("web_learner.py", <<"a">>, <<"b">>)>>,
     <<Patch("bot.py", <<"a">>, <<"b">>),
       Patch("claude_client.py", <<"a">>, <<"b">>)>>,
     <<Patch("claude_client.py", <<"a">>, <<"x">>),
       Patch("web_learner.py", <<"a">>, <<"b">>)>>,
     <<Patch("claude_client.py", <<"a">>, <<"x">>),
       Patch("bot.py", <<"a">>, <<"b">>)>>}
Replies ==
    {LlmFailed}
    \cup {<<Object(pl)>> : pl \in PatchLists \cup LongerPatchLists}
    \cup {<<Fence, JsonWord, Space, Object(OnePatch), Space, Fence>>,
          <<Space, Fence, Object(OnePatch), Fence, Space>>,
          <<Prose, Fence, JsonWord, Object(OnePatch), Fence>>,
          <<Fence, JsonWord, Prose, Fence>>,
          <<Prose>>,
          <<Object(<<Patch("web_learner.py", <<"c">>, <<"b">>)>>)>>,
          <<Object(<<Malformed>>)>>,
          <<Object(OnePatch \o <<Malformed>>)>>}

NoCycle == [none |-> TRUE]

\* The cycle is remembered in full until the process takes its next step, and
\* after that only as having happened.
PastCycle == [past |-> TRUE]
Forget(c) == IF c = NoCycle THEN NoCycle ELSE PastCycle

CC_CAP == 20

\* The document with the code-change entry appended (lines 711-720).
CodeChangeLogged(file, applied) ==
    LET evo == LoadEvolution(file)
        code_changes == Append(evo.code_changes,
                               [files |-> applied, patch_count |-> Len(applied)])
    IN [evo EXCEPT !.code_changes = LastN(code_changes, CC_CAP)]

(***************************************************************************)
(* Process start (bot.py:1-25, 1320-1347)                                  *)
(***************************************************************************)
\* The modules bot.py's top-level imports execute, in order of completion.
TopLevelImports ==
    <<"config.py", "storage.py", "web_tools.py", "embeddings_client.py",
      "embeddings_tools.py", "claude_client.py", "rate_limit.py",
      "subscription.py", "payments.py">>

\* post_init line 1326: evolution.py runs its guard while it is imported.
GuardImport == <<"evolution.py", "check_and_rollback">>

\* post_init lines 1330-1347.
AgentImports ==
    <<"moltbook.py", "moltbook_agent.py", "resilience.py", "research_agent.py",
      "intelligence_agent.py">>

GuardIdle ==
    /\ files = InitialFiles
    /\ backup_dir = Absent
    /\ modified_marker = Absent
    /\ crashed_marker = FALSE
    /\ proc = "down"
    /\ boot_log = <<>>
    /\ uptime = 0
    /\ timer_due = NoTimer
    /\ timer_fired = FALSE
    /\ cycles_left = 0
    /\ pre_cycle = InitialFiles
    /\ boot_files = InitialFiles
    /\ boot_kind = "none"
    /\ cycle = NoCycle
    /\ kept = InitialFiles
    /\ unsettled = {}

(***************************************************************************)
(* unstoppable: async_wrapper and sync_wrapper (resilience.py:96-241)      *)
(***************************************************************************)
\* Every attempt of the operation takes OpSeconds; between invocations the
\* operation is left alone for 0 or IdleGap seconds.
OpSeconds == 2
IdleGap == TIMEOUT_DURATION + 1

\* A backoff that doubles without the cap.
NextBackoff_NoCap(b) == b * BACKOFF_MULTIPLIER

\* backoff = min(backoff * BACKOFF_MULTIPLIER, MAX_BACKOFF)
NextBackoff(b) == Min(b * BACKOFF_MULTIPLIER, MAX_BACKOFF)

\* A retry loop that runs one iteration too many.
IsLastAttempt_Late(a, n) == a = n

\* attempt == max_retries - 1 (line 168); not (attempt < max_retries - 1) (227)
IsLastAttempt(a, n) == a = n - 1

\* A synchronous loop that gives up one attempt early.
SleepsAfterFailure_OneFewer(a, n) == a < n - 2

\* sync_wrapper: attempt < max_retries - 1 (line 227), the test that decides
\* whether the loop sleeps and goes round again.
SleepsAfterFailure(a, n) == a < n - 1

\* The except clause of the remediation retry (lines 179-180) swallows.
FixRetryRaises == FALSE

Sum(seq) == IF seq = <<>> THEN 0 ELSE
    LET F[i \in 0..Len(seq)] == IF i = 0 THEN 0 ELSE F[i - 1] + seq[i] IN F[Len(seq)]

Ev(kind, val) == [ev |-> kind, val |-> val]

\* Nothing has touched the defaults of evolution.py.
NoEvoRuns ==
    [reflect |-> 0, modify |-> 0, learn |-> 0, outage |-> 0, restart |-> 0,
     killed |-> 0]

\* No run of the synchronous wrapper has been recorded.
NoTwin == [none |-> TRUE]

EvoIdle ==
    /\ default_history = <<>>
    /\ disk_full = FALSE
    /\ evo_runs = NoEvoRuns
    /\ evo_bak = Absent
    /\ reflect_pc = "idle"
    /\ reflect_evo = Absent
    /\ serial_breaker = Absent
    /\ run_trace = <<>>
    /\ twin = NoTwin

\* No invocation has started yet.
WrapState ==
    /\ performance_metrics = [n \in Names |-> Absent]
    /\ error_patterns = [k \in Names \X ErrTypes |-> Absent]
    /\ pc = [t \in Tasks |-> "idle"]
    /\ attempt = [t \in Tasks |-> 0]
    /\ backoff = [t \in Tasks |-> INITIAL_BACKOFF]
    /\ last_error = [t \in Tasks |-> NoError]
    /\ start_time = [t \in Tasks |-> NoTime]
    /\ wake = [t \in Tasks |-> NoTime]
    /\ admitted = [t \in Tasks |-> FALSE]
    /\ outcome = [t \in Tasks |-> "none"]
    /\ log = [t \in Tasks |-> <<>>]

\* ... and there is no Evolution Document on disk.
WrapIdle == WrapState /\ evo_file = Absent

\* Evolution Documents left by earlier runs: none, and failure-learning
\* histories one short of the cap and at the cap.
OldLearning ==
    [timestamp |-> 0, function |-> "fetch_news", error |-> "bad input",
     patterns |-> {}]

PriorDocuments ==
    {Absent} \cup
    {[DefaultEvolution EXCEPT !.failure_learnings = [i \in 1..n |-> OldLearning]] :
        n \in {FL_CAP - 1, FL_CAP}}

InitWrapped ==
    /\ EvoIdle
    /\ now = 1
    /\ func_name \in Names
    /\ circuit_breakers = [n \in Names |-> Absent]
    /\ cb_call = "none" /\ cb_ret = FALSE /\ consec_failures = 0
    /\ probe = "none" /\ probe_trues = 0 /\ succ_since_probe = 0
    /\ critical \in BOOLEAN
    /\ is_async \in BOOLEAN
    /\ op_error \in Errors
    /\ WrapState
    /\ GuardIdle

InitWrap ==
    /\ InitWrapped
    /\ max_retries \in 0..MaxRetries
    /\ calls_left = MaxInvocations
    /\ evo_file = Absent

InitRetry ==
    /\ InitWrapped
    /\ max_retries \in 0..MaxRetriesLong
    /\ calls_left = 1
    /\ evo_file \in PriorDocuments

\* Lines 187-196 (async) and 231-233 (sync): all retries exhausted. reg and ep
\* are the registry and the failure tracker as the attempts left them, msg is
\* str(last_error).
Exhausted(t, reg, ep, lg, msg) ==
    /\ circuit_breakers' = reg
    /\ error_patterns' = ep
    /\ performance_metrics' = TrackPerformance(performance_metrics, func_name, 0, FALSE)
    /\ IF is_async
       THEN \E saveOk \in BOOLEAN :
              LET r == LearnFromFailure(evo_file, func_name,
                                        msg, ep, now, saveOk) IN
              /\ evo_file' = r.file
              /\ log' = [log EXCEPT ![t] = lg \o <<Ev("learn", IF saveOk THEN 1 ELSE 0)>>]
              /\ outcome' = [outcome EXCEPT ![t] =
                                IF r.raised THEN "raised" ELSE "fallback"]
       ELSE /\ UNCHANGED evo_file
            /\ log' = [log EXCEPT ![t] = lg]
            /\ outcome' = [outcome EXCEPT ![t] = "fallback"]
    /\ pc' = [pc EXCEPT ![t] = "done"]

\* Lines 121-135 / 201-213: the breaker gate and the start of the first attempt.
Begin(t) ==
    /\ pc[t] \in {"idle", "done"}
    /\ calls_left > 0
    /\ calls_left' = calls_left - 1
    /\ LET reg == GetCircuitBreaker(circuit_breakers, func_name)
           cb  == reg[func_name]
           reg2 == [reg EXCEPT ![func_name] = CanExecuteCb(cb, now)]
       IN
       /\ attempt' = [attempt EXCEPT ![t] = 0]
       /\ wake' = [wake EXCEPT ![t] = NoTime]
       /\ IF ~CanExecuteRet(cb, now)
          THEN /\ circuit_breakers' = reg2
               /\ admitted' = [admitted EXCEPT ![t] = FALSE]
               /\ outcome' = [outcome EXCEPT ![t] = "fallback"]
               /\ log' = [log EXCEPT ![t] = <<>>]
               /\ pc' = [pc EXCEPT ![t] = "done"]
               /\ backoff' = [backoff EXCEPT ![t] = INITIAL_BACKOFF]
               /\ last_error' = [last_error EXCEPT ![t] = NoError]
               /\ start_time' = [start_time EXCEPT ![t] = NoTime]
               /\ UNCHANGED <<performance_metrics, error_patterns,
                              evo_file>>
          ELSE /\ admitted' = [admitted EXCEPT ![t] = TRUE]
               /\ backoff' = [backoff EXCEPT ![t] = INITIAL_BACKOFF]
               /\ last_error' = [last_error EXCEPT ![t] = NoError]
               /\ IF max_retries > 0
                  THEN /\ circuit_breakers' = reg2
                       /\ start_time' = [start_time EXCEPT ![t] = now]
                       /\ log' = [log EXCEPT ![t] = <<Ev("call", 1)>>]
                       /\ outcome' = [outcome EXCEPT ![t] = "none"]
                       /\ pc' = [pc EXCEPT ![t] = "running"]
                       /\ UNCHANGED <<performance_metrics, error_patterns,
                                      evo_file>>
                  ELSE /\ start_time' = [start_time EXCEPT ![t] = NoTime]
                       /\ Exhausted(t, reg2, error_patterns, <<>>, NoError.msg)
    /\ UNCHANGED <<now, func_name, cbVars, cfgVars>>

\* Lines 144-150 / 215-218: the attempt returned.
OpReturns(t) ==
    /\ pc[t] = "running"
    /\ now >= start_time[t] + OpSeconds
    /\ performance_metrics' =
         TrackPerformance(performance_metrics, func_name, now - start_time[t], TRUE)
    /\ circuit_breakers' = [circuit_breakers EXCEPT ![func_name] = RecordSuccess(@)]
    /\ log' = [log EXCEPT ![t] = @ \o <<Ev("record_success", 0)>>]
    /\ outcome' = [outcome EXCEPT ![t] = "result"]
    /\ pc' = [pc EXCEPT ![t] = "done"]
    /\ UNCHANGED <<now, func_name, cbVars, cfgVars, error_patterns,
                   evo_file, calls_left, attempt, backoff,
                   last_error, start_time, wake, admitted>>

\* Lines 152-185 / 220-229: the attempt raised.
OpRaises(t) ==
    /\ pc[t] = "running"
    /\ now >= start_time[t] + OpSeconds
    /\ last_error' = [last_error EXCEPT ![t] = op_error]
    /\ LET ep  == TrackError(error_patterns, func_name, op_error, now)
           reg == [circuit_breakers EXCEPT ![func_name] = RecordFailure(@, now)]
           lg  == log[t] \o <<Ev("record_failure", 0)>>
       IN
       IF (IF is_async THEN IsLastAttempt(attempt[t], max_retries)
           ELSE ~SleepsAfterFailure(attempt[t], max_retries))
       THEN IF is_async /\ critical
            THEN \* await attempt_auto_fix(...)
                 /\ circuit_breakers' = reg
                 /\ error_patterns' = ep
                 /\ log' = [log EXCEPT ![t] =
                       lg \o [i \in 1..Len(AutoFixSleeps(op_error.msg)) |->
                                Ev("fix_sleep", AutoFixSleeps(op_error.msg)[i])]]
                 /\ wake' = [wake EXCEPT ![t] = now + Sum(AutoFixSleeps(op_error.msg))]
                 /\ pc' = [pc EXCEPT ![t] = "fix_sleeping"]
                 /\ UNCHANGED <<performance_metrics, evo_file,
                                outcome, backoff>>
            ELSE /\ Exhausted(t, reg, ep, lg, op_error.msg)
                 /\ UNCHANGED <<wake, backoff>>
       ELSE \* asyncio.sleep(backoff) / time.sleep(backoff)
            /\ circuit_breakers' = reg
            /\ error_patterns' = ep
            /\ log' = [log EXCEPT ![t] = lg \o <<Ev("sleep", backoff[t])>>]
            /\ wake' = [wake EXCEPT ![t] = now + backoff[t]]
            /\ backoff' = [backoff EXCEPT ![t] = NextBackoff(@)]
            /\ pc' = [pc EXCEPT ![t] = "sleeping"]
            /\ UNCHANGED <<performance_metrics, evo_file, outcome>>
    /\ UNCHANGED <<now, func_name, cbVars, cfgVars, calls_left, attempt,
                   start_time, admitted>>

\* The backoff sleep is over: the next iteration of the loop starts its attempt.
Wake(t) ==
    /\ pc[t] = "sleeping"
    /\ now >= wake[t]
    /\ attempt' = [attempt EXCEPT ![t] = @ + 1]
    /\ start_time' = [start_time EXCEPT ![t] = now]
    /\ log' = [log EXCEPT ![t] = @ \o <<Ev("call", attempt[t] + 2)>>]
    /\ pc' = [pc EXCEPT ![t] = "running"]
    /\ UNCHANGED <<now, circuit_breakers, func_name, cbVars, cfgVars,
                   performance_metrics, error_patterns, evo_file,
                   calls_left, backoff, last_error, wake, admitted, outcome>>

\* Lines 171-181: attempt_auto_fix returned.
AutoFixDone(t) ==
    /\ pc[t] = "fix_sleeping"
    /\ now >= wake[t]
    /\ IF AutoFixReturns(last_error[t].msg)
       THEN /\ log' = [log EXCEPT ![t] = @ \o <<Ev("autofix", 1), Ev("call", attempt[t] + 2)>>]
            /\ pc' = [pc EXCEPT ![t] = "fix_running"]
            /\ start_time' = [start_time EXCEPT ![t] = now]
            /\ UNCHANGED <<circuit_breakers, performance_metrics, error_patterns,
                           evo_file, outcome, last_error>>
       ELSE /\ Exhausted(t, circuit_breakers, error_patterns,
                         log[t] \o <<Ev("autofix", 0)>>, last_error[t].msg)
            /\ UNCHANGED <<last_error, start_time>>
    /\ UNCHANGED <<now, func_name, cbVars, cfgVars, calls_left, attempt, backoff,
                   wake, admitted>>

\* Lines 175-178: the attempt made after the fix returned.
FixOpReturns(t) ==
    /\ pc[t] = "fix_running"
    /\ now >= start_time[t] + OpSeconds
    /\ circuit_breakers' = [circuit_breakers EXCEPT ![func_name] = RecordSuccess(@)]
    /\ log' = [log EXCEPT ![t] = @ \o <<Ev("record_success", 0)>>]
    /\ outcome' = [outcome EXCEPT ![t] = "result"]
    /\ pc' = [pc EXCEPT ![t] = "done"]
    /\ UNCHANGED <<now, func_name, cbVars, cfgVars, performance_metrics,
                   error_patterns, evo_file, calls_left, attempt,
                   backoff, last_error, start_time, wake, admitted>>

\* Lines 179-181, 187-196: the attempt made after the fix raised.
FixOpRaises(t) ==
    /\ pc[t] = "fix_running"
    /\ now >= start_time[t] + OpSeconds
    /\ IF FixRetryRaises
       THEN /\ outcome' = [outcome EXCEPT ![t] = "raised"]
            /\ pc' = [pc EXCEPT ![t] = "done"]
            /\ UNCHANGED <<circuit_breakers, performance_metrics, error_patterns,
                           evo_file, log>>
       ELSE Exhausted(t, circuit_breakers, error_patterns, log[t], last_error[t].msg)
    /\ UNCHANGED <<now, func_name, cbVars, cfgVars, calls_left, attempt, backoff,
                   last_error, start_time, wake, admitted>>

\* Time passes: a sleeping task's deadline is reached, an attempt in flight
\* completes, or the operation is left alone for IdleGap.

AdvanceWrap(ts) ==
    /\ \/ \E t \in ts : /\ pc[t] \in {"sleeping", "fix_sleeping"}
                        /\ wake[t] > now
                        /\ now' = wake[t]
       \/ \E t \in ts : /\ pc[t] \in {"running", "fix_running"}
                        /\ start_time[t] + OpSeconds > now
                        /\ now' = start_time[t] + OpSeconds
       \/ /\ \A t \in ts : pc[t] \in {"idle", "done"}
          /\ now + IdleGap <= MaxTimeWrap
          /\ now' = now + IdleGap
    /\ UNCHANGED <<circuit_breakers, func_name, cbVars, cfgVars, wrapVars>>

\* SpecWrap: one caller at a time.
NextWrap ==
    /\ \/ \E t \in {1} :
            \/ Begin(t)
            \/ OpReturns(t)
            \/ OpRaises(t)
            \/ Wake(t)
            \/ AutoFixDone(t)
            \/ FixOpReturns(t)
            \/ FixOpRaises(t)
       \/ AdvanceWrap({1})
    /\ UNCHANGED <<guardVars, evoVars, concVars>>

SpecWrap == InitWrap /\ [][NextWrap]_vars

\* SpecRetry: a single invocation, with longer retry loops.
SpecRetry == InitRetry /\ [][NextWrap]_vars

(***************************************************************************)
(* SpecConc: several invocations of the same wrapped operation in flight   *)
(* at once, as tasks of one asyncio event loop. A task gives up control    *)
(* only at an await (the operation itself at line 146, asyncio.sleep at    *)
(* lines 170 and 185): get_circuit_breaker and the breaker's methods hold  *)
(* no await, so each of them runs as one step. The synchronous wrapper     *)
(* never awaits (time.sleep at line 229 holds the loop), so an invocation  *)
(* of a synchronous operation runs from start to end before another one    *)
(* starts.                                                                 *)
(***************************************************************************)
MaxRetriesConc == 2
MaxInvocationsConc == 3
MaxTimeConc == 150

InitConc ==
    /\ InitWrapped
    /\ func_name = "fetch_prices"
    /\ op_error.msg = "rate limited"
    /\ max_retries = MaxRetriesConc
    /\ calls_left = MaxInvocationsConc
    /\ evo_file = Absent

\* One call of a method of a breaker that a single caller owns.
Serially(cb, op) ==
    CASE op = "can_execute"    -> CanExecuteCb(IF cb = Absent THEN NewBreaker ELSE cb, now)
      [] op = "record_success" -> RecordSuccess(cb)
      [] op = "record_failure" -> RecordFailure(cb, now)

Called(op) == serial_breaker' = Serially(serial_breaker, op)

\* Task t may take a step: invocations of a synchronous operation do not
\* interleave.
MayRun(t) ==
    is_async \/ \A u \in Tasks \ {t} : pc[u] \in {"idle", "done"}

\* The time at which the await task t is suspended in completes.
Due(t) ==
    IF pc[t] \in {"sleeping", "fix_sleeping"} THEN wake[t]
    ELSE start_time[t] + OpSeconds

Waiting == {t \in Tasks : pc[t] \notin {"idle", "done"}}

\* The event loop has nothing to run: time passes until the first pending
\* await completes, or, with no invocation in flight, for IdleGap.
AdvanceConc ==
    /\ \A t \in Waiting : Due(t) > now
    /\ IF Waiting = {}
       THEN /\ now + IdleGap <= MaxTimeConc
            /\ now' = now + IdleGap
       ELSE \E t \in Waiting :
               /\ \A u \in Waiting : Due(t) <= Due(u)
               /\ now' = Due(t)
    /\ UNCHANGED <<circuit_breakers, func_name, cbVars, cfgVars, wrapVars>>

NextConc ==
    /\ \/ \E t \in Tasks :
            /\ MayRun(t)
            /\ \/ Begin(t) /\ Called("can_execute")
               \/ OpReturns(t) /\ Called("record_success")
               \/ OpRaises(t) /\ Called("record_failure")
               \/ Wake(t) /\ UNCHANGED serial_breaker
               \/ AutoFixDone(t) /\ UNCHANGED serial_breaker
               \/ FixOpReturns(t) /\ Called("record_success")
               \/ FixOpRaises(t) /\ UNCHANGED serial_breaker
       \/ AdvanceConc /\ UNCHANGED serial_breaker
    /\ UNCHANGED <<guardVars, evoVars, run_trace, twin>>

SpecConc == InitConc /\ [][NextConc]_vars

(***************************************************************************)
(* SpecTwin: one scenario run through both wrappers. A non-critical        *)
(* operation is invoked MaxInvocations times through sync_wrapper; then    *)
(* the process state is set back to the start and the same operation is    *)
(* invoked through async_wrapper.                                          *)
(***************************************************************************)
InitTwin ==
    /\ InitWrapped
    /\ ~critical
    /\ ~is_async
    /\ max_retries \in 0..MaxRetries
    /\ calls_left = MaxInvocations
    /\ evo_file = Absent

\* The invocation of task 1 as the run's history keeps it.
Invocation(begin, lg, out, end) ==
    [begin |-> begin, log |-> lg, outcome |-> out, end |-> end]

\* The run's history after a step of the wrapper.
TraceAfterStep ==
    IF calls_left' < calls_left
    THEN Append(run_trace, Invocation(now, log'[1], outcome'[1], now))
    ELSE [run_trace EXCEPT ![Len(run_trace)] =
            Invocation(@.begin, log'[1], outcome'[1], now)]

\* The attempts of an invocation that have raised so far.
Raised(inv) ==
    Cardinality({i \in 1..Len(inv.log) : inv.log[i].ev = "record_failure"})

\* What the operation did in an invocation: when it was invoked, and the
\* number of attempts that raised before one returned, or -1 if none
\* returned.
Shape(inv) ==
    [begin |-> inv.begin,
     raised_before_return |-> IF inv.outcome = "result" THEN Raised(inv) ELSE -1]

\* In the invocation cur the operation is invoked when it was in ref and has
\* so far done in each attempt what it did in ref.
Follows(cur, ref) ==
    /\ cur.begin = ref.begin
    /\ Shape(ref).raised_before_return # -1
         => Raised(cur) <= Shape(ref).raised_before_return
    /\ cur.outcome = "result" => Raised(cur) = Shape(ref).raised_before_return

\* The run through async_wrapper is given the scenario of the run through
\* sync_wrapper: the same invocation times and the same outcome of each
\* attempt.
SameOperation ==
    twin # NoTwin =>
        \A i \in {Len(TraceAfterStep)} :
            /\ i <= Len(twin.trace)
            /\ Follows(TraceAfterStep[i], twin.trace[i])

\* The run through sync_wrapper is over: what it did is kept, and the run
\* through async_wrapper starts from the same state.
Switch ==
    /\ ~is_async
    /\ calls_left = 0
    /\ pc[1] = "done"
    /\ twin' = [trace |-> run_trace, cb |-> circuit_breakers,
                ep |-> error_patterns, pm |-> performance_metrics]
    /\ run_trace' = <<>>
    /\ is_async' = TRUE
    /\ now' = 1
    /\ circuit_breakers' = [n \in Names |-> Absent]
    /\ calls_left' = MaxInvocations
    /\ evo_file' = Absent
    /\ performance_metrics' = [n \in Names |-> Absent]
    /\ error_patterns' = [k \in Names \X ErrTypes |-> Absent]
    /\ pc' = [t \in Tasks |-> "idle"]
    /\ attempt' = [t \in Tasks |-> 0]
    /\ backoff' = [t \in Tasks |-> INITIAL_BACKOFF]
    /\ last_error' = [t \in Tasks |-> NoError]
    /\ start_time' = [t \in Tasks |-> NoTime]
    /\ wake' = [t \in Tasks |-> NoTime]
    /\ admitted' = [t \in Tasks |-> FALSE]
    /\ outcome' = [t \in Tasks |-> "none"]
    /\ log' = [t \in Tasks |-> <<>>]
    /\ UNCHANGED <<func_name, cbVars, max_retries, critical, op_error>>

NextTwin ==
    /\ \/ /\ \/ Begin(1)
             \/ OpReturns(1)
             \/ OpRaises(1)
             \/ Wake(1)
          /\ SameOperation
          /\ run_trace' = TraceAfterStep
          /\ UNCHANGED twin
       \/ AdvanceWrap({1}) /\ UNCHANGED <<run_trace, twin>>
       \/ Switch
    /\ UNCHANGED <<guardVars, evoVars, serial_breaker>>

SpecTwin == InitTwin /\ [][NextTwin]_vars

(***************************************************************************)
(* SpecGuard: process starts, the guard, the stability timer, modification *)
(* cycles and crashes.                                                     *)
(***************************************************************************)
InitGuard ==
    /\ EvoIdle
    /\ now = 1
    /\ func_name = "fetch_prices"
    /\ circuit_breakers = [n \in Names |-> Absent]
    /\ cb_call = "none" /\ cb_ret = FALSE /\ consec_failures = 0
    /\ probe = "none" /\ probe_trues = 0 /\ succ_since_probe = 0
    /\ max_retries = 0 /\ critical = FALSE /\ is_async = TRUE
    /\ op_error = NoError
    /\ calls_left = 0
    /\ WrapIdle
    /\ files = InitialFiles
    /\ backup_dir = Absent
    /\ modified_marker = Absent
    /\ crashed_marker = FALSE
    /\ proc = "down"
    /\ boot_log = <<>>
    /\ uptime = 0
    /\ timer_due = NoTimer
    /\ timer_fired = FALSE
    /\ cycles_left = MaxCycles
    /\ pre_cycle = InitialFiles
    /\ boot_files = InitialFiles
    /\ boot_kind = "none"
    /\ cycle = NoCycle
    /\ kept = InitialFiles
    /\ unsettled = {}

\* The supervisor starts the process: python bot.py.
Start ==
    /\ proc = "down"
    /\ proc' = "booting"
    /\ boot_log' = <<>>
    /\ uptime' = 0
    /\ timer_due' = NoTimer
    /\ timer_fired' = FALSE
    /\ boot_files' = files
    /\ boot_kind' = "none"
    /\ cycle' = NoCycle
    /\ UNCHANGED <<files, backup_dir, modified_marker, crashed_marker, cycles_left,
                   pre_cycle, evo_file>>

\* bot.py lines 1-25: the top-level imports.
ImportTopLevel ==
    /\ proc = "booting"
    /\ proc' = "imported"
    /\ boot_log' = boot_log \o TopLevelImports
    /\ UNCHANGED <<files, backup_dir, modified_marker, crashed_marker, uptime,
                   timer_due, timer_fired, cycles_left, pre_cycle, boot_files,
                   boot_kind, evo_file, cycle>>

\* post_init line 1326: the first import of evolution runs check_and_rollback.
RunGuard ==
    /\ proc = "imported"
    /\ LET r == CheckAndRollback(files, backup_dir, modified_marker, crashed_marker) IN
       /\ files' = r.files
       /\ backup_dir' = r.backup_dir
       /\ modified_marker' = r.modified
       /\ crashed_marker' = r.crashed
       /\ boot_kind' = r.kind
    /\ boot_log' = boot_log \o GuardImport
    /\ proc' = "guarded"
    /\ UNCHANGED <<uptime, timer_due, timer_fired, cycles_left, pre_cycle,
                   boot_files, evo_file, cycle>>

\* A file operation of check_and_rollback raises OSError: os.listdir or the
\* first shutil.copy2 of the rollback (lines 69-73), or the open() that writes
\* the crashed marker (line 80). Nothing on disk has changed. No handler is
\* between that line and the import statement of post_init (bot.py:1326), nor
\* between post_init and app.run_polling() (bot.py:1400): the process ends.
GuardRaises ==
    /\ proc = "imported"
    /\ modified_marker # Absent
    /\ crashed_marker => backup_dir # Absent
    /\ boot_kind' = "RAISED"
    /\ proc' = "down"
    /\ boot_log' = <<>>
    /\ UNCHANGED <<files, backup_dir, modified_marker, crashed_marker, uptime,
                   timer_due, timer_fired, cycles_left, pre_cycle, boot_files,
                   evo_file, cycle>>

\* post_init lines 1327-1347: the stability timer and the agent loops.
StartAgents ==
    /\ proc = "guarded"
    /\ timer_due' = IF modified_marker # Absent
                    THEN uptime + STABILITY_DELAY ELSE NoTimer
    /\ boot_log' = boot_log \o AgentImports
    /\ proc' = "running"
    /\ UNCHANGED <<files, backup_dir, modified_marker, crashed_marker, uptime,
                   timer_fired, cycles_left, pre_cycle, boot_files, boot_kind,
                   evo_file, cycle>>

\* moltbook_agent.py line 565: the loop imports web_learner on its first cycle.
LoadWebLearner ==
    /\ proc = "running"
    /\ \A i \in 1..Len(boot_log) : boot_log[i] # "web_learner.py"
    /\ boot_log' = Append(boot_log, "web_learner.py")
    /\ cycle' = Forget(cycle)
    /\ UNCHANGED <<files, backup_dir, modified_marker, crashed_marker, proc, uptime,
                   timer_due, timer_fired, cycles_left, pre_cycle, boot_files,
                   boot_kind, evo_file>>

\* _clear_markers_after_delay (evolution.py:84-88) wakes and clears the markers.
TimerFires ==
    /\ proc = "running"
    /\ timer_due # NoTimer
    /\ uptime >= timer_due
    /\ modified_marker' = RemoveMarkers(modified_marker, crashed_marker).modified
    /\ crashed_marker' = RemoveMarkers(modified_marker, crashed_marker).crashed
    /\ timer_due' = NoTimer
    /\ timer_fired' = TRUE
    /\ cycle' = Forget(cycle)
    /\ UNCHANGED <<files, backup_dir, proc, boot_log, uptime, cycles_left,
                   pre_cycle, boot_files, boot_kind, evo_file>>

\* The process stays up until the stability timer is due.
AdvanceGuard ==
    /\ proc = "running"
    /\ timer_due # NoTimer
    /\ uptime < timer_due
    /\ uptime' = timer_due
    /\ cycle' = Forget(cycle)
    /\ UNCHANGED <<files, backup_dir, modified_marker, crashed_marker, proc,
                   boot_log, timer_due, timer_fired, cycles_left, pre_cycle,
                   boot_files, boot_kind, evo_file>>

\* self_modify_code: one modification cycle on the collaborator's reply.
SelfModify ==
    /\ proc = "running"
    /\ cycles_left > 0
    /\ cycles_left' = cycles_left - 1
    /\ \E reply \in Replies :
         /\ cycle' = [reply |-> reply, files |-> files, backup_dir |-> backup_dir]
         /\ IF reply = LlmFailed \/ ~ParseOk(reply)
            THEN \* lines 731-732: the exception is logged
                 UNCHANGED <<files, backup_dir, modified_marker, proc, timer_due,
                             pre_cycle, evo_file>>
            ELSE IF ParsedPatches(reply) = <<>>
            THEN UNCHANGED <<files, backup_dir, modified_marker, proc, timer_due,
                             pre_cycle, evo_file>>
            ELSE LET st == ApplyPatches(LoopStart(files, backup_dir),
                                        ParsedPatches(reply))
                 IN /\ files' = st.files
                    /\ backup_dir' = st.backup_dir
                    /\ IF st.raised \/ st.applied = <<>>
                       THEN UNCHANGED <<evo_file, modified_marker, pre_cycle, proc,
                                        timer_due>>
                       ELSE \E saveOk \in BOOLEAN :
                              IF saveOk
                              THEN /\ evo_file' = CodeChangeLogged(evo_file, st.applied)
                                   /\ modified_marker' = [files |-> st.applied]
                                   /\ pre_cycle' = files
                                   /\ proc' = "down"
                                   /\ timer_due' = NoTimer
                              ELSE \* save_evolution (line 720) raised
                                   UNCHANGED <<evo_file, modified_marker,
                                               pre_cycle, proc, timer_due>>
    /\ UNCHANGED <<crashed_marker, boot_log, uptime, timer_fired, boot_files,
                   boot_kind>>

\* The process dies (a crash, a kill, a redeploy); what it held in memory is
\* gone.
Crash ==
    /\ proc # "down"
    /\ proc' = "down"
    /\ timer_due' = NoTimer
    /\ boot_log' = <<>>
    /\ uptime' = 0
    /\ timer_fired' = FALSE
    /\ boot_kind' = "none"
    /\ boot_files' = files
    /\ cycle' = NoCycle
    /\ UNCHANGED <<files, backup_dir, modified_marker, crashed_marker, cycles_left,
                   pre_cycle, evo_file>>

\* The process is killed inside _remove_markers (evolution.py:91-96) while the
\* stability timer runs it: os.remove has deleted the modified marker and has
\* not yet reached the crashed marker.
KilledInRemoveMarkers ==
    /\ proc = "running"
    /\ timer_due # NoTimer
    /\ uptime >= timer_due
    /\ modified_marker' = Absent
    /\ proc' = "down"
    /\ timer_due' = NoTimer
    /\ boot_log' = <<>>
    /\ uptime' = 0
    /\ timer_fired' = FALSE
    /\ boot_kind' = "none"
    /\ boot_files' = files
    /\ cycle' = NoCycle
    /\ UNCHANGED <<files, backup_dir, crashed_marker, cycles_left, pre_cycle,
                   evo_file>>

\* A step that is one run of self_modify_code.
CycleStep == cycles_left' < cycles_left

\* The source files whose text the step changed.
Overwritten == {f \in DOMAIN files : files'[f] # files[f]}

\* The modified marker is removed: by _remove_markers for the stability
\* timer (line 87) or at the end of a rollback (line 76).
MarkerRemoved == modified_marker # Absent /\ modified_marker' = Absent

\* The stability timer of this process clears the markers in this step.
TimerConfirms == ~timer_fired /\ timer_fired'

\* What the pipeline leaves alone: the breakers and the wrapped operations.
\* The history of confirmed sources follows the timer.
GuardRest ==
    /\ UNCHANGED <<now, circuit_breakers, func_name, cbVars, cfgVars,
                   performance_metrics, error_patterns, calls_left, pc, attempt,
                   backoff, last_error, start_time, wake, admitted, outcome, log,
                   evoVars, concVars>>
    /\ kept' = IF TimerConfirms THEN files' ELSE kept
    /\ unsettled' = IF MarkerRemoved THEN {}
                    ELSE IF CycleStep THEN unsettled \cup Overwritten
                    ELSE unsettled

NextGuard ==
    /\ \/ Start
       \/ ImportTopLevel
       \/ RunGuard
       \/ StartAgents
       \/ LoadWebLearner
       \/ TimerFires
       \/ AdvanceGuard
       \/ SelfModify
       \/ Crash
       \/ KilledInRemoveMarkers
       \/ GuardRaises
    /\ GuardRest

SpecGuard == InitGuard /\ [][NextGuard]_vars

\* A process that is up keeps running: its clock advances and a due timer wakes.
FairSpecGuard ==
    /\ SpecGuard
    /\ WF_vars(StartAgents /\ GuardRest)
    /\ WF_vars(AdvanceGuard /\ GuardRest)
    /\ WF_vars(TimerFires /\ GuardRest)

(***************************************************************************)
(* SpecCB: a caller drives one breaker through its three methods while     *)
(* time passes.                                                            *)
(***************************************************************************)
\* Steps of the clock: half a timeout window, and one second more.
AdvanceStepsCB == {TIMEOUT_DURATION \div 2, TIMEOUT_DURATION \div 2 + 1}

TheBreaker == circuit_breakers[func_name]

InitCB ==
    /\ EvoIdle
    /\ now = 1
    /\ func_name \in Names
    /\ circuit_breakers = [n \in Names |-> Absent]
    /\ cb_call = "none"
    /\ cb_ret = FALSE
    /\ consec_failures = 0
    /\ probe = "none"
    /\ probe_trues = 0
    /\ succ_since_probe = 0
    /\ WrapIdle
    /\ GuardIdle
    /\ calls_left = 0
    /\ max_retries = 0 /\ critical = FALSE /\ is_async = TRUE
    /\ op_error = NoError

CallRecordSuccess ==
    LET reg == GetCircuitBreaker(circuit_breakers, func_name) IN
    /\ reg[func_name].successes < MaxSuccesses
    /\ circuit_breakers' = [reg EXCEPT ![func_name] = RecordSuccess(@)]
    /\ cb_call' = "record_success"
    /\ consec_failures' = 0
    /\ probe' = IF probe = "none" THEN "none" ELSE "recorded"
    /\ succ_since_probe' = IF probe = "none" THEN 0 ELSE succ_since_probe + 1
    /\ probe_trues' = 0
    /\ UNCHANGED <<now, func_name, cb_ret>>

CallRecordFailure ==
    LET reg == GetCircuitBreaker(circuit_breakers, func_name) IN
    /\ reg[func_name].failures < MaxFailures
    /\ circuit_breakers' = [reg EXCEPT ![func_name] = RecordFailure(@, now)]
    /\ cb_call' = "record_failure"
    /\ consec_failures' = consec_failures + 1
    /\ probe' = "none"
    /\ succ_since_probe' = 0
    /\ probe_trues' = 0
    /\ UNCHANGED <<now, func_name, cb_ret>>

CallCanExecute ==
    LET reg == GetCircuitBreaker(circuit_breakers, func_name)
        cb  == reg[func_name]
        ret == CanExecuteRet(cb, now)
        probing == cb.is_open /\ ret
    IN
    /\ circuit_breakers' = [reg EXCEPT ![func_name] = CanExecuteCb(cb, now)]
    /\ cb_call' = "can_execute"
    /\ cb_ret' = ret
    /\ probe' = IF probing THEN "admitted" ELSE probe
    /\ succ_since_probe' = IF probing THEN 0 ELSE succ_since_probe
    /\ probe_trues' =
         IF probing THEN 1
         ELSE IF probe = "admitted" /\ ret /\ probe_trues < 2 THEN probe_trues + 1
         ELSE probe_trues
    /\ UNCHANGED <<now, func_name, consec_failures>>

AdvanceCB ==
    /\ \E d \in AdvanceStepsCB :
         /\ now + d <= MaxTimeCB
         /\ now' = now + d
    /\ UNCHANGED <<circuit_breakers, func_name, cb_call, cb_ret, consec_failures,
                   probe, probe_trues, succ_since_probe>>

NextCB ==
    /\ \/ CallRecordSuccess
       \/ CallRecordFailure
       \/ CallCanExecute
       \/ AdvanceCB
    /\ UNCHANGED <<cfgVars, wrapVars, guardVars, evoVars, concVars>>

SpecCB == InitCB /\ [][NextCB]_vars

(***************************************************************************)
(* SpecEvo: the writers of the Evolution Document in a running process:    *)
(* reflect_and_improve with the modification cycle it ends with,           *)
(* learn_from_failure, and the data volume filling up and being freed.     *)
(***************************************************************************)
RH_CAP == 20

\* Runs per behaviour; cycles that apply a patch are bounded by MaxCycles.
MaxReflections == 22
MaxLearnings == 2
MaxOutages == 1
\* New processes per behaviour, after a kill or a redeploy.
MaxRestarts == 1

\* The entry reflect_and_improve appends (lines 545-549).
ReflectionEntry(t) == [timestamp |-> t, insights |-> "insights"]

\* save_evolution (evolution.py:126-141): open(path, "w") empties the file,
\* json.dump fills it; with no space left the write raises and the file
\* stays cut short.
SaveEvolution(data, full) == IF full THEN Unreadable ELSE data

\* Lines 129-138: the .bak sibling after save_evolution. The old text is
\* copied if the file exists; open(backup, "w") empties the backup, and a
\* write that fails is swallowed (line 137).
BackedUp(file, bak, full) ==
    IF file = Absent THEN bak
    ELSE IF full THEN Unreadable ELSE file

\* Lines 550-551: history = evo.get("reflection_history", []), then
\* history.append(entry).
HistoryAppended(file, t) ==
    Append(LoadEvolution(file).reflection_history, ReflectionEntry(t))

\* The list object under DEFAULT_EVOLUTION["reflection_history"] after line
\* 551: the append lands in it when evo is a copy of the defaults.
DefaultsAfterAppend(file, t) ==
    IF file \in {Absent, Unreadable} THEN HistoryAppended(file, t)
    ELSE default_history

\* Line 552: the document reflect_and_improve saves.
ReflectedDoc(file, t) ==
    [LoadEvolution(file) EXCEPT
        !.reflection_history = LastN(HistoryAppended(file, t), RH_CAP)]

\* Documents a process can find when its agent loop has started
\* (moltbook_agent.py:570-573 writes one if there is none): a new one, and one
\* whose histories are at their caps.
FullLearning(i) ==
    [timestamp |-> i, function |-> "fetch_news", error |-> "bad input",
     patterns |-> {}]

OldChange == [files |-> <<"web_tools.py">>, patch_count |-> 1]

EvoDocuments ==
    { [failure_learnings |-> <<>>, code_changes |-> <<>>,
       reflection_history |-> <<>>],
      [failure_learnings |-> [i \in 1..FL_CAP |-> FullLearning(i)],
       code_changes |-> [i \in 1..CC_CAP |-> OldChange],
       reflection_history |-> [i \in 1..RH_CAP |-> ReflectionEntry(i)]] }

\* The files a cycle of SpecEvo reports as applied: none, or one.
AppliedLists == {<<>>, <<"web_learner.py">>}

InitEvo ==
    /\ EvoIdle
    /\ now = FL_CAP + 1
    /\ func_name = "fetch_prices"
    /\ circuit_breakers = [n \in Names |-> Absent]
    /\ cb_call = "none" /\ cb_ret = FALSE /\ consec_failures = 0
    /\ probe = "none" /\ probe_trues = 0 /\ succ_since_probe = 0
    /\ max_retries = 1 /\ critical = TRUE /\ is_async = TRUE
    /\ op_error \in {e \in Errors : e.msg = "bad input"}
    /\ calls_left = 0
    /\ WrapState
    /\ evo_file \in EvoDocuments
    /\ files = InitialFiles
    /\ backup_dir = Absent
    /\ modified_marker = Absent
    /\ crashed_marker = FALSE
    /\ proc = "running"
    /\ boot_log = <<>>
    /\ uptime = 0
    /\ timer_due = NoTimer
    /\ timer_fired = FALSE
    /\ cycles_left = 0
    /\ pre_cycle = InitialFiles
    /\ boot_files = InitialFiles
    /\ boot_kind = "CLEAN"
    /\ cycle = NoCycle
    /\ kept = InitialFiles
    /\ unsettled = {}

\* datetime.now() of a writer's run: the documents of EvoDocuments hold
\* timestamps up to FL_CAP, and every run of a writer is later than the runs
\* of the same writer before it.
Stamp(run) == FL_CAP + run

\* reflect_and_improve (evolution.py:414-566) with a reply that arrives and
\* parses (otherwise nothing is written). It loads the document (line 421)
\* and then awaits the reports and the collaborator (lines 426-529).
ReflectLoads ==
    /\ reflect_pc = "idle"
    /\ evo_runs.reflect < MaxReflections
    /\ reflect_pc' = "loaded"
    /\ reflect_evo' = evo_file
    /\ UNCHANGED <<now, evo_file, evo_bak, default_history, disk_full, evo_runs>>

\* Lines 533-554: the entry is appended to the copy loaded at line 421 and
\* that copy is saved; a save that raises ends the run (line 564).
ReflectSaves ==
    /\ reflect_pc = "loaded"
    /\ \A t \in {Stamp(evo_runs.reflect + 1)} :
         /\ evo_file' = SaveEvolution(ReflectedDoc(reflect_evo, t), disk_full)
         /\ default_history' = DefaultsAfterAppend(reflect_evo, t)
    /\ evo_bak' = BackedUp(evo_file, evo_bak, disk_full)
    /\ evo_runs' = [evo_runs EXCEPT !.reflect = @ + 1]
    /\ reflect_pc' = IF disk_full THEN "idle" ELSE "saved"
    /\ reflect_evo' = Absent
    /\ UNCHANGED <<now, disk_full>>

\* Line 559: self_modify_code. With patches applied it loads the document
\* again, logs the code change, saves and ends the process (lines 709-729),
\* and the supervisor starts a new one; a save that raises is caught at line
\* 731 and the process goes on.
SelfModifies ==
    /\ reflect_pc = "saved"
    /\ reflect_pc' = "idle"
    /\ \E applied \in AppliedLists :
         IF applied = <<>>
         THEN UNCHANGED <<evo_file, evo_bak, default_history, evo_runs>>
         ELSE /\ evo_runs.modify < MaxCycles
              /\ evo_file' = SaveEvolution(CodeChangeLogged(evo_file, applied),
                                           disk_full)
              /\ evo_bak' = BackedUp(evo_file, evo_bak, disk_full)
              /\ default_history' = IF disk_full THEN default_history ELSE <<>>
              /\ evo_runs' = [evo_runs EXCEPT !.modify = @ + 1]
    /\ UNCHANGED <<now, disk_full, reflect_evo>>

\* learn_from_failure (resilience.py:333-357), called by the wrapper when an
\* invocation of a critical operation is exhausted; an exception of the save
\* is swallowed (line 356).
Learn ==
    /\ evo_runs.learn < MaxLearnings
    /\ evo_runs' = [evo_runs EXCEPT !.learn = @ + 1]
    /\ evo_file' = SaveEvolution(LearnedDoc(evo_file, func_name, op_error.msg,
                                            error_patterns,
                                            Stamp(evo_runs.learn + 1)), disk_full)
    /\ evo_bak' = BackedUp(evo_file, evo_bak, disk_full)
    /\ UNCHANGED <<now, default_history, disk_full, reflect_pc, reflect_evo>>

\* The data volume runs out of space.
DiskFills ==
    /\ ~disk_full
    /\ evo_runs.outage < MaxOutages
    /\ evo_runs' = [evo_runs EXCEPT !.outage = @ + 1]
    /\ disk_full' = TRUE
    /\ UNCHANGED <<now, evo_file, default_history, evo_bak, reflect_pc, reflect_evo>>

\* Space is freed.
DiskFreed ==
    /\ disk_full
    /\ disk_full' = FALSE
    /\ UNCHANGED <<now, evo_file, default_history, evo_runs, evo_bak, reflect_pc,
                   reflect_evo>>

\* The process is replaced while the volume has space: the new process has
\* the defaults of evolution.py as written in the source, and its agent loop
\* writes a document if it can load none (moltbook_agent.py:570-573).
Restart ==
    /\ ~disk_full
    /\ evo_runs.restart + evo_runs.killed < MaxRestarts
    /\ evo_runs' = [evo_runs EXCEPT !.restart = @ + 1]
    /\ default_history' = <<>>
    /\ evo_file' = IF evo_file \in {Absent, Unreadable}
                   THEN [DefaultEvolution EXCEPT !.reflection_history = <<>>]
                   ELSE evo_file
    /\ evo_bak' = IF evo_file \in {Absent, Unreadable}
                  THEN BackedUp(evo_file, evo_bak, FALSE)
                  ELSE evo_bak
    /\ reflect_pc' = "idle"
    /\ reflect_evo' = Absent
    /\ UNCHANGED <<now, disk_full>>

\* The process is killed inside save_evolution while learn_from_failure saves
\* (lines 139-140): open(path, "w") has emptied the file; the document has
\* reached the file in full, or it has not. The supervisor starts a new
\* process.
KilledInSave ==
    /\ ~disk_full
    /\ evo_runs.restart + evo_runs.killed < MaxRestarts
    /\ evo_runs.learn < MaxLearnings
    /\ evo_runs' = [evo_runs EXCEPT !.learn = @ + 1, !.killed = @ + 1]
    /\ \E flushed \in BOOLEAN :
         evo_file' = SaveEvolution(LearnedDoc(evo_file, func_name, op_error.msg,
                                             error_patterns,
                                             Stamp(evo_runs.learn + 1)), ~flushed)
    /\ evo_bak' = BackedUp(evo_file, evo_bak, FALSE)
    /\ default_history' = <<>>
    /\ reflect_pc' = "idle"
    /\ reflect_evo' = Absent
    /\ UNCHANGED <<now, disk_full>>

NextEvo ==
    /\ \/ ReflectLoads
       \/ ReflectSaves
       \/ SelfModifies
       \/ Learn
       \/ KilledInSave
       \/ DiskFills
       \/ DiskFreed
       \/ Restart
    /\ UNCHANGED <<circuit_breakers, func_name, cbVars, cfgVars,
                   performance_metrics, error_patterns, calls_left, pc, attempt,
                   backoff, last_error, start_time, wake, admitted, outcome, log,
                   guardVars, concVars>>

SpecEvo == InitEvo /\ [][NextEvo]_vars

(***************************************************************************)
(* Claims about the CircuitBreaker (checked under SpecCB)                  *)
(***************************************************************************)
\* C5: after FAILURE_THRESHOLD consecutive record_failure() calls with no
\* record_success() in between, every can_execute() call made before
\* TIMEOUT_DURATION has elapsed since the last recorded failure returns False.
C5_RefusesAfterThreshold ==
    ( /\ cb_call = "can_execute"
      /\ consec_failures >= FAILURE_THRESHOLD
      /\ now - TheBreaker.last_failure_time < TIMEOUT_DURATION )
    => cb_ret = FALSE

\* C6: once the timeout has elapsed for an open breaker, can_execute() returns
\* True exactly once (the probe); further calls made before any success or
\* failure is recorded return False.
C6_ProbeExactlyOnce ==
    probe_trues <= 1

\* C7: after the timeout probe was admitted, once SUCCESS_THRESHOLD consecutive
\* successes have been recorded the breaker is closed and both counters are 0.
C7_ClosedAndResetAfterSuccesses ==
    ( /\ cb_call = "record_success"
      /\ probe = "recorded"
      /\ succ_since_probe = SUCCESS_THRESHOLD )
    => ( /\ ~TheBreaker.is_open
         /\ TheBreaker.failures = 0
         /\ TheBreaker.successes = 0 )

(***************************************************************************)
(* Claims about the wrapper (checked under SpecWrap and SpecRetry)         *)
(***************************************************************************)
\* The operation was attempted and every attempt of the invocation failed.
AllFailed(t) == pc[t] = "done" /\ admitted[t] /\ outcome[t] = "fallback"

HasEvent(t, e) == \E i \in 1..Len(log[t]) : log[t][i] = e

\* How often the operation was invoked in task t's invocation.
Calls(t) == Cardinality({i \in 1..Len(log[t]) : log[t][i].ev = "call"})

\* The invocations of the operation and the backoff sleeps, in order.
CallsAndSleeps(t) ==
    LET F[i \in 0..Len(log[t])] ==
          IF i = 0 THEN <<>>
          ELSE IF log[t][i].ev \in {"call", "sleep"}
               THEN Append(F[i - 1], log[t][i]) ELSE F[i - 1]
    IN F[Len(log[t])]

\* C1: an invocation of the wrapper ends by returning the operation's result
\* or the fallback value; it never raises to its caller, also when the
\* remediation retry fails or the failure-learning step fails.
C1_NeverRaises ==
    \A t \in Tasks :
        /\ outcome[t] # "raised"
        /\ pc[t] = "done" => outcome[t] \in {"result", "fallback"}

\* C1 witness: the remediation retry failed and the learning step failed, and
\* the invocation returned the fallback.
C1_Witness ==
    \E t \in Tasks :
        /\ AllFailed(t)
        /\ HasEvent(t, Ev("autofix", 1))
        /\ HasEvent(t, Ev("learn", 0))

\* C8: when can_execute() is false at the start of an invocation the wrapper
\* returns the fallback at once: no attempt, no sleep, and the breaker, the
\* failure tracker, the performance metrics and the Evolution Document are
\* unchanged.
C8_RefusedIsNoOp ==
    [][ ( /\ calls_left' < calls_left
          /\ TheBreaker # Absent
          /\ ~CanExecuteRet(TheBreaker, now) )
        => ( /\ UNCHANGED <<now, circuit_breakers, error_patterns,
                            performance_metrics, evo_file>>
             /\ \E t \in Tasks :
                  /\ pc[t] \in {"idle", "done"}
                  /\ pc'[t] = "done"
                  /\ outcome'[t] = "fallback"
                  /\ log'[t] = <<>>
                  /\ \A u \in Tasks \ {t} :
                        /\ pc'[u] = pc[u]
                        /\ log'[u] = log[u]
                        /\ outcome'[u] = outcome[u] ) ]_vars

\* C8 witness: an invocation was refused by the open breaker.
C8_Witness ==
    \E t \in Tasks :
        /\ pc[t] = "done"
        /\ ~admitted[t]
        /\ outcome[t] = "fallback"
        /\ calls_left < MaxInvocations
        /\ TheBreaker # Absent
        /\ TheBreaker.is_open

\* C9 as stated: an operation that fails on every attempt is invoked exactly
\* max_retries times, whatever the critical flag.
C9_ExactlyMaxRetries ==
    \A t \in Tasks : AllFailed(t) => Calls(t) = max_retries

\* C9 amended: it is invoked exactly max_retries times, and once more
\* (max_retries + 1 times) when the asynchronous wrapper has critical set,
\* max_retries >= 1 and the remediation heuristic took an action.
C9_MaxRetriesPlusRemediation ==
    \A t \in Tasks :
        AllFailed(t) =>
            Calls(t) = max_retries +
                (IF is_async /\ critical /\ max_retries >= 1
                    /\ FixesAttempted(op_error.msg) # {}
                 THEN 1 ELSE 0)

\* C9 witness: every attempt and the attempt after the remediation failed.
C9_Witness ==
    \E t \in Tasks :
        /\ AllFailed(t)
        /\ max_retries >= 2
        /\ Calls(t) = max_retries + 1

\* The sum of k backoffs that start at b, double, and are capped at 60.
RECURSIVE DoublingSum(_, _)
DoublingSum(k, b) ==
    IF k <= 0 THEN 0 ELSE b + DoublingSum(k - 1, IF 2 * b > 60 THEN 60 ELSE 2 * b)

\* C10: when all n = max_retries attempts fail, the wrapper sleeps only
\* between consecutive attempts (n-1 backoff sleeps, none after the n-th
\* attempt), the i-th sleep lasts min(2^(i-1), 60) seconds, and the backoff
\* sleeps add up to the capped doubling sum.
C10_BackoffSequence ==
    \A t \in Tasks :
        AllFailed(t) =>
            LET cs == CallsAndSleeps(t)
                n  == max_retries
                sleeps == {p \in 1..Len(cs) : cs[p].ev = "sleep"}
            IN
            /\ n = 0 => cs = <<>>
            /\ n >= 1 =>
                 /\ Len(cs) \in {2 * n - 1, 2 * n}
                 /\ \A p \in 1..Len(cs) :
                      IF p < 2 * n /\ p % 2 = 0
                      THEN cs[p] = Ev("sleep", Min(2 ^ (p \div 2 - 1), 60))
                      ELSE cs[p].ev = "call"
                 /\ Cardinality(sleeps) = n - 1
            /\ Sum([i \in 1..Len(cs) |->
                      IF cs[i].ev = "sleep" THEN cs[i].val ELSE 0])
                 = DoublingSum(n - 1, 1)

\* C10 witness: a run of failures long enough for the cap to be reached.
C10_Witness ==
    \E t \in Tasks :
        /\ AllFailed(t)
        /\ HasEvent(t, Ev("sleep", MAX_BACKOFF))
        /\ HasEvent(t, Ev("sleep", 32))

(***************************************************************************)
(* Crash-loop guard: C2, C3, C4                                            *)
(***************************************************************************)
\* C2: a modification cycle followed by a start with both markers present
\* ends with the backup directory and both markers removed and with every
\* source file equal to its content before the cycle began.
C2_RollbackRestoresPreCycle ==
    (proc = "guarded" /\ boot_kind = "ROLLED_BACK") =>
        /\ backup_dir = Absent
        /\ modified_marker = Absent
        /\ ~crashed_marker
        /\ files = pre_cycle

\* The first start after a modification cycle, while that process is up.
Monitoring == boot_kind = "MONITORING" /\ proc \in {"guarded", "running"}

\* C3: a start with the modified marker present and the crashed marker absent
\* changes no source file, creates the crashed marker and starts the stability
\* timer; a process that stays up through the 120 s window ends with both
\* markers absent and the source files still as patched.
C3_StablePatchIsKept ==
    /\ [](Monitoring =>
            /\ cycle = NoCycle => files = boot_files
            /\ ~timer_fired => (modified_marker # Absent /\ crashed_marker)
            /\ (proc = "running" /\ ~timer_fired) => timer_due = STABILITY_DELAY
            /\ (proc = "running" /\ uptime < STABILITY_DELAY) => ~timer_fired
            /\ timer_fired => (modified_marker = Absent /\ ~crashed_marker))
    /\ (Monitoring /\ proc = "guarded")
          ~> (~Monitoring \/ (timer_fired /\ uptime >= STABILITY_DELAY))

\* C3's case: a patched process survived the window and the timer has fired.
C3_Witness ==
    /\ Monitoring
    /\ proc = "running"
    /\ timer_fired
    /\ uptime >= STABILITY_DELAY
    /\ files # InitialFiles
    /\ files = boot_files
    /\ cycle = NoCycle

\* The allow-listed files C4 names.
GuardedFiles ==
    {"claude_client.py", "web_tools.py", "moltbook_agent.py", "web_learner.py"}

GuardRuns == Len(SelectSeq(boot_log, LAMBDA m : m = "check_and_rollback"))

\* C4: on every start the guard runs exactly once, and no allow-listed source
\* file is loaded by the process before the guard has run.
C4_GuardRunsFirst ==
    /\ GuardRuns <= 1
    /\ proc = "running" => GuardRuns = 1
    /\ \A i \in 1..Len(boot_log) :
         boot_log[i] \in GuardedFiles =>
            \E j \in 1..(i - 1) : boot_log[j] = "check_and_rollback"

(***************************************************************************)
(* The wrapper, continued: C11 - C14                                       *)
(***************************************************************************)
CountEv(t, kind) == Cardinality({i \in 1..Len(log[t]) : log[t][i].ev = kind})

\* The invocation returned the result of an attempt of the retry loop.
SucceededInLoop(t) ==
    /\ pc[t] = "done"
    /\ outcome[t] = "result"
    /\ CountEv(t, "autofix") = 0

\* C11: when the operation first succeeds on attempt k <= max_retries it is
\* invoked exactly k times, the breaker receives k-1 record_failure calls and
\* then one record_success, nothing (no sleep) follows the success, and the
\* wrapper returns the operation's result.
C11_SuccessOnAttemptK ==
    \A t \in Tasks :
        SucceededInLoop(t) =>
            LET k == Calls(t) IN
            /\ k \in 1..max_retries
            /\ Len(log[t]) = 3 * k - 1
            /\ \A i \in 1..(k - 1) :
                 /\ log[t][3 * i - 2] = Ev("call", i)
                 /\ log[t][3 * i - 1] = Ev("record_failure", 0)
                 /\ log[t][3 * i].ev = "sleep"
            /\ log[t][3 * k - 2] = Ev("call", k)
            /\ log[t][3 * k - 1] = Ev("record_success", 0)
            /\ CountEv(t, "record_failure") = k - 1
            /\ CountEv(t, "record_success") = 1

\* C11 witness: two failed attempts, then a success on the third.
C11_Witness ==
    \E t \in Tasks :
        /\ SucceededInLoop(t)
        /\ Calls(t) = 3
        /\ max_retries > 3

\* The final (max_retries-th) attempt of task t's invocation has failed.
FinalAttemptFailed(t) ==
    /\ admitted[t]
    /\ max_retries >= 1
    /\ CountEv(t, "record_failure") = max_retries
    /\ pc[t] = "done"

\* C12: with critical set, when the final attempt fails the remediation
\* heuristic runs exactly once, one additional attempt is made exactly when
\* the heuristic reports an action, and a success of that attempt is the
\* result; with critical unset there is no remediation and no extra attempt.
C12_RemediationOnFinalFailure ==
    \A t \in Tasks :
        FinalAttemptFailed(t) =>
            IF critical
            THEN /\ CountEv(t, "autofix") = 1
                 /\ Calls(t) = max_retries +
                        (IF AutoFixReturns(last_error[t].msg) THEN 1 ELSE 0)
                 /\ HasEvent(t, Ev("autofix", 1)) <=> AutoFixReturns(last_error[t].msg)
                 /\ HasEvent(t, Ev("record_success", 0)) => outcome[t] = "result"
            ELSE /\ CountEv(t, "autofix") = 0
                 /\ Calls(t) = max_retries

FailureLearnings == LoadEvolution(evo_file).failure_learnings

\* C13: sync or async, an invocation all of whose attempts (and remediation
\* retry) fail appends exactly one failure-learning record for the function to
\* the Evolution Document as it returns the fallback (unless writing the
\* document itself failed); every other step of the wrapper, a returned
\* result included, leaves the document alone.
C13_OneLearningPerExhaustion ==
    [][ \A t \in Tasks :
          max_retries >= 1 =>
          IF /\ pc'[t] = "done" /\ admitted'[t] /\ outcome'[t] = "fallback"
             /\ (pc[t] # "done" \/ calls_left' < calls_left)
          THEN \/ /\ Len(FailureLearnings') = Len(FailureLearnings) + 1
                  /\ SubSeq(FailureLearnings', 1, Len(FailureLearnings))
                        = FailureLearnings
                  /\ FailureLearnings'[Len(FailureLearnings')].function = func_name
               \/ /\ log'[t] # <<>>
                  /\ log'[t][Len(log'[t])] = Ev("learn", 0)
                  /\ evo_file' = evo_file
          ELSE (pc'[t] # pc[t] \/ log'[t] # log[t]) => evo_file' = evo_file ]_vars

\* What the end-to-end invocation does, step by step.
EndToEndLog ==
    <<Ev("call", 1), Ev("record_failure", 0), Ev("sleep", 1),
      Ev("call", 2), Ev("record_failure", 0), Ev("sleep", 2),
      Ev("call", 3), Ev("record_failure", 0), Ev("sleep", 4),
      Ev("call", 4), Ev("record_failure", 0), Ev("sleep", 8),
      Ev("call", 5), Ev("record_failure", 0),
      Ev("fix_sleep", 60), Ev("autofix", 1), Ev("call", 6)>>

EndToEnd ==
    /\ is_async /\ critical /\ max_retries = 5
    /\ op_error.msg = "rate limited"

Proposed(reply) ==
    IF reply # LlmFailed /\ ParseOk(reply) THEN ParsedPatches(reply) ELSE <<>>

\* The file's entry in the backup directory.
BackupEntry(dir, f) == IF dir = Absent THEN Absent ELSE dir[f]

\* old occurs verbatim in text.
Present(text, old) ==
    \E i \in 1..(Len(text) - Len(old) + 1) : SubSeq(text, i, i + Len(old) - 1) = old

\* C15: two accepted patches to one file in one cycle are applied one after
\* the other, each replacing the first occurrence in the content the previous
\* one left, and the file's backup after the cycle is its content from before
\* the cycle.
C15_BackupHoldsPreCycle ==
    [][ \A f \in SourceFiles :
          \A ps \in {IF CycleStep THEN Proposed(cycle'.reply) ELSE <<>>} :
          ( /\ CycleStep
            /\ Len(ps) = 2
            /\ modified_marker' # Absent
            /\ modified_marker'.files = <<f, f>> )
          => /\ files'[f].text =
                  ReplaceFirst(ReplaceFirst(files[f].text, ps[1].old, ps[1].new),
                               ps[2].old, ps[2].new)
             /\ BackupEntry(backup_dir', f) = files[f] ]_vars

\* C16: a patch whose old text is not in the file's current content is
\* skipped: the file is unchanged, no backup entry is made for it and it is
\* not counted as modified. Stated for each patch of a cycle against the
\* content the earlier patches left, and for the cycle as a whole.
C16_AbsentOldIsSkipped ==
    [][ CycleStep =>
          \A ps \in {Proposed(cycle'.reply)} :
          /\ \A i \in 1..Len(ps) :
               \A st \in {ApplyPatches(LoopStart(files, backup_dir),
                                       SubSeq(ps, 1, i - 1))} :
                  ( /\ ps[i] # Malformed
                    /\ ps[i].file \in SourceFiles
                    /\ ~st.raised
                    /\ ps[i].old # <<>>
                    /\ ~Present(st.files[ps[i].file].text, ps[i].old) )
                  => ApplyPatch(st, ps[i]) = st
          /\ \A f \in SourceFiles :
               ( \A i \in 1..Len(ps) :
                    (ps[i] # Malformed /\ ps[i].file = f)
                       => (ps[i].old # <<>> /\ ~Present(files[f].text, ps[i].old)) )
               => /\ files'[f] = files[f]
                  /\ BackupEntry(backup_dir', f) = BackupEntry(backup_dir, f)
                  /\ ( modified_marker' # modified_marker =>
                         \A j \in 1..Len(modified_marker'.files) :
                            modified_marker'.files[j] # f ) ]_vars

\* C16 witness: the cycle proposed replacing "a" in a file that holds no "a";
\* the file and the disk are as before and the process runs on.
C16_Witness ==
    /\ cycle \notin {NoCycle, PastCycle}
    /\ cycle.reply = <<Object(OnePatch)>>
    /\ cycle.files["claude_client.py"].text = <<"b", "b">>
    /\ files = cycle.files
    /\ BackupEntry(backup_dir, "claude_client.py")
          = BackupEntry(cycle.backup_dir, "claude_client.py")
    /\ proc = "running"

\* The tracked file that is not on the allow-list.
NotAllowListed == {"bot.py"}

\* C17: no step of the pipeline, the guard or the timer writes, backs up or
\* restores a file outside the allow-list, and a cycle with a patch for such
\* a file ends as the same cycle without that patch would.
C17_OnlyAllowListedFiles ==
    [][ /\ \A f \in NotAllowListed :
             /\ files'[f] = files[f]
             /\ BackupEntry(backup_dir', f) = Absent
        /\ CycleStep =>
             \A ps \in {Proposed(cycle'.reply)} :
             \A st \in {ApplyPatches(LoopStart(files, backup_dir),
                           SelectSeq(ps, LAMBDA q :
                              q = Malformed \/ q.file \notin NotAllowListed))} :
                ps # <<>> =>
                  /\ files' = st.files
                  /\ backup_dir' = st.backup_dir
                  /\ modified_marker' # modified_marker
                        => modified_marker'.files = st.applied ]_vars

\* C17 witness: a cycle proposed a patch for bot.py and one for
\* claude_client.py; only the second was written.
C17_Witness ==
    /\ cycle \notin {NoCycle, PastCycle}
    /\ cycle.reply = <<Object(<<Patch("bot.py", <<"a">>, <<"b">>),
                               Patch("claude_client.py", <<"a">>, <<"b">>)>>)>>
    /\ files["bot.py"] = cycle.files["bot.py"]
    /\ files["claude_client.py"] # cycle.files["claude_client.py"]
    /\ modified_marker = [files |-> <<"claude_client.py">>]
    /\ proc = "down"

CodeChanges == LoadEvolution(evo_file).code_changes

\* C18: a cycle that wrote at least one patch to a source file ends with a
\* code-change entry in the Evolution Document, the modified marker naming
\* the changed files, and the process terminated; no cycle overwrites a source
\* file and leaves the process running without the modified marker.
C18_AppliedCycleRestarts ==
    [][ (CycleStep /\ files' # files) =>
          /\ CodeChanges' # <<>>
          /\ CodeChanges' # CodeChanges
          /\ modified_marker' # Absent
          /\ CodeChanges'[Len(CodeChanges')].files = modified_marker'.files
          /\ \A f \in SourceFiles :
                files'[f] # files[f] <=>
                   \E j \in 1..Len(modified_marker'.files) :
                      modified_marker'.files[j] = f
          /\ proc' = "down" ]_vars

\* The patch passes the loop's validation against the source files fs.
PassesValidation(p, fs) ==
    /\ p # Malformed
    /\ p.old # <<>> /\ p.new # <<>> /\ p.old # p.new
    /\ p.file \notin NotAllowListed
    /\ fs[p.file] # Absent
    /\ Present(fs[p.file].text, p.old)
    /\ LET text == ReplaceFirst(fs[p.file].text, p.old, p.new)
       IN \A i \in 1..Len(text) : text[i] # "x"

\* C19: when the patch list is empty or none of its patches passes
\* validation, the cycle changes no source file, writes no modified marker,
\* appends no code-change entry and the process keeps running.
C19_NothingValidNothingDone ==
    [][ ( /\ CycleStep
          /\ cycle'.reply # LlmFailed
          /\ ParseOk(cycle'.reply)
          /\ \A ps \in {Proposed(cycle'.reply)} :
                \A i \in 1..Len(ps) : ~PassesValidation(ps[i], files) )
        => /\ files' = files
           /\ modified_marker' = modified_marker
           /\ evo_file' = evo_file
           /\ proc' = "running" ]_vars

\* C19 witness: a cycle whose two patches both failed validation (one does
\* not compile, one names bot.py) left everything as it was.
C19_Witness ==
    /\ cycle \notin {NoCycle, PastCycle}
    /\ cycle.reply = <<Object(<<Patch("claude_client.py", <<"a">>, <<"x">>),
                               Patch("bot.py", <<"a">>, <<"b">>)>>)>>
    /\ Present(cycle.files["claude_client.py"].text, <<"a">>)
    /\ files = cycle.files
    /\ modified_marker = Absent
    /\ proc = "running"

\* The reply holds no JSON value at all.
NotJson(reply) == \A i \in 1..Len(reply) : reply[i].tok # "object"

\* C20: when the call to the collaborator fails or its reply is not valid
\* JSON, the cycle ends with source files, backups, markers and Evolution
\* Document unchanged and the process running; a reply that wraps its JSON in
\* a fenced code block is parsed like the bare JSON.
C20_BadReplyAbortsCycle ==
    [][ CycleStep =>
          /\ (cycle'.reply = LlmFailed \/ NotJson(cycle'.reply)) =>
                /\ UNCHANGED <<files, backup_dir, modified_marker, crashed_marker,
                               evo_file, proc>>
                /\ proc' = "running"
          /\ ( /\ cycle'.reply \in
                    {<<Fence, JsonWord, Space, Object(OnePatch), Space, Fence>>,
                     <<Space, Fence, Object(OnePatch), Fence, Space>>}
               /\ Present(files["claude_client.py"].text, <<"a">>) )
             => files'["claude_client.py"].text =
                   ReplaceFirst(files["claude_client.py"].text, <<"a">>, <<"b">>)
       ]_vars

\* C20 witness: the reply was a fenced block without JSON in it; nothing
\* changed and the process runs on.
C20_Witness ==
    /\ cycle \notin {NoCycle, PastCycle}
    /\ cycle.reply = <<Fence, JsonWord, Prose, Fence>>
    /\ files = cycle.files
    /\ backup_dir = cycle.backup_dir
    /\ proc = "running"

(***************************************************************************)
(* C21: in every persisted Evolution Document, reflection_history holds at  *)
(* most 20 entries, code_changes at most 20 and failure_learnings at most   *)
(* 100, and the entries of a history are in the order they were appended    *)
(* (eviction drops the oldest).                                             *)
(***************************************************************************)
Persisted == evo_file \notin {Absent, Unreadable}

InInsertionOrder(seq) ==
    \A i \in 1..Len(seq) - 1 : seq[i].timestamp < seq[i + 1].timestamp

C21_HistoriesCapped ==
    Persisted =>
        /\ Len(evo_file.reflection_history) <= RH_CAP
        /\ Len(evo_file.code_changes) <= CC_CAP
        /\ Len(evo_file.failure_learnings) <= FL_CAP
        /\ InInsertionOrder(evo_file.reflection_history)
        /\ InInsertionOrder(evo_file.failure_learnings)

(***************************************************************************)
(* C22: a process start with no modified marker present is a no-op of the   *)
(* guard: from the start of the process until its agents run, no source     *)
(* file, backup directory or marker is created, changed or removed (a       *)
(* crashed marker present alone stays), and no stability timer is started.  *)
(***************************************************************************)
StartStep ==
    /\ proc \in {"down", "booting", "imported", "guarded"}
    /\ proc' \in {"booting", "imported", "guarded", "running"}

C22_CleanStartIsNoOp ==
    [][(StartStep /\ modified_marker = Absent) =>
          /\ files' = files
          /\ backup_dir' = backup_dir
          /\ modified_marker' = Absent
          /\ crashed_marker' = crashed_marker
          /\ timer_due' = NoTimer]_vars

\* C22's case: a process started with the crashed marker alone on disk (and a
\* backup directory), its guard has run and its agents are up.
C22_Witness ==
    /\ proc = "running"
    /\ boot_kind = "CLEAN"
    /\ GuardRuns = 1
    /\ modified_marker = Absent
    /\ crashed_marker
    /\ backup_dir # Absent
    /\ timer_due = NoTimer
    /\ cycle = NoCycle

(***************************************************************************)
(* C23: the wrapper never starts an attempt of the operation (first         *)
(* attempt, retry after a backoff, or the attempt after remediation) while  *)
(* the operation's breaker is open and its timeout has not elapsed.         *)
(***************************************************************************)
AttemptStarts(t) ==
    /\ pc'[t] \in {"running", "fix_running"}
    /\ pc'[t] # pc[t]

BreakerRefuses(reg, t) ==
    /\ reg[func_name] # Absent
    /\ reg[func_name].is_open
    /\ ~(reg[func_name].last_failure_time # NoTime
         /\ t - reg[func_name].last_failure_time > TIMEOUT_DURATION)

C23_NoAttemptWhileOpen ==
    [][\A t \in Tasks :
          (is_async /\ AttemptStarts(t)) =>
              ~BreakerRefuses(circuit_breakers', now')]_vars

(***************************************************************************)
(* C24: when an invocation of the async wrapper is over, every attempt of   *)
(* the operation it made, the attempt after remediation included, has       *)
(* exactly one outcome record on the breaker: a record_success if it        *)
(* succeeded, a record_failure if it failed.                                *)
(***************************************************************************)
C24_OneRecordPerAttempt ==
    \A t \in Tasks :
        (is_async /\ pc[t] = "done" /\ admitted[t]) =>
            /\ CountEv(t, "call") =
                  CountEv(t, "record_success") + CountEv(t, "record_failure")
            /\ CountEv(t, "record_success") = (IF outcome[t] = "result" THEN 1 ELSE 0)

(***************************************************************************)
(* C25: whenever the modified marker is present, the files in the backup    *)
(* directory are exactly the files overwritten in the cycle that wrote the  *)
(* marker (the files its payload lists): no backup of an earlier cycle is   *)
(* still there.                                                             *)
(***************************************************************************)
MarkerFiles == {modified_marker.files[i] : i \in 1..Len(modified_marker.files)}

C25_BackupsAreOfTheMarkedCycle ==
    modified_marker # Absent =>
        /\ backup_dir # Absent
        /\ ListDir(backup_dir) = MarkerFiles

(***************************************************************************)
(* C26: the backup directory does not outlive its modification cycle: once  *)
(* the stability timer has confirmed a patch, and once the guard has rolled *)
(* one back, the backup directory no longer exists.                         *)
(***************************************************************************)
GuardRollsBack == boot_kind # "ROLLED_BACK" /\ boot_kind' = "ROLLED_BACK"

C26_BackupDirIsRemoved ==
    [][(TimerConfirms \/ GuardRollsBack) => backup_dir' = Absent]_vars

(***************************************************************************)
(* C27: a patch is kept if and only if the first run after it survives the  *)
(* stability window: every process start that finds both markers rolls      *)
(* back (whatever ended the process before), a start that finds the         *)
(* modified marker alone does not, and a rollback leaves alone every file   *)
(* whose content a stability timer has confirmed.                           *)
(***************************************************************************)
GuardStep == proc = "imported" /\ proc' = "guarded"

C27_KeptIffWindowSurvived ==
    [][GuardStep =>
          /\ (modified_marker # Absent /\ crashed_marker) => boot_kind' = "ROLLED_BACK"
          /\ (modified_marker # Absent /\ ~crashed_marker) =>
                (boot_kind' = "MONITORING" /\ files' = files)
          /\ \A f \in SourceFiles : files[f] = kept[f] => files'[f] = files[f]]_vars

(***************************************************************************)
(* C28: when the process is killed during a write of the Evolution          *)
(* Document, the file afterwards holds its complete previous content or     *)
(* its complete new content, never an empty or cut-short one.               *)
(***************************************************************************)
KilledInWrite == evo_runs'.killed > evo_runs.killed

C28_WriteIsAtomic ==
    [][KilledInWrite =>
          \A new \in {LearnedDoc(evo_file, func_name, op_error.msg, error_patterns,
                                 Stamp(evo_runs.learn + 1))} :
             evo_file' \in {evo_file, new}]_vars

(***************************************************************************)
(* C29: a file operation that fails inside the guard's startup check does   *)
(* not end the check with an exception that reaches the code starting the   *)
(* process: every run of the check returns, and the start goes on.          *)
(***************************************************************************)
GuardEnds == proc = "imported" /\ boot_kind' # "none"

C29_GuardNeverRaises ==
    [][GuardEnds => (boot_kind' # "RAISED" /\ proc' = "guarded")]_vars

(***************************************************************************)
(* C30: a patch whose candidate content fails the syntax check is discarded *)
(* alone: its file stays as it is, no backup is made for it and it is not   *)
(* listed as applied, and the cycle ends as the same cycle without that     *)
(* patch would (the other patches are evaluated and applied if valid).      *)
(***************************************************************************)
\* The token the compiler rejects is in the text.
SyntaxError(text) == \E k \in 1..Len(text) : text[k] = "x"

\* The patch reaches the syntax check against the source files fs and fails it.
FailsSyntaxCheck(p, fs) ==
    /\ p # Malformed
    /\ p.old # <<>> /\ p.new # <<>> /\ p.old # p.new
    /\ p.file \notin NotAllowListed
    /\ fs[p.file] # Absent
    /\ Present(fs[p.file].text, p.old)
    /\ SyntaxError(ReplaceFirst(fs[p.file].text, p.old, p.new))

\* No source file holds the rejected token, so a candidate can fail the check
\* only through the new text of its patch.
BringsSyntaxError(p) == p # Malformed /\ SyntaxError(p.new)

C30_SyntaxFailureDiscardsOnePatch ==
    [][ CycleStep =>
          \A ps \in {Proposed(cycle'.reply)} :
          /\ \A i \in 1..Len(ps) :
               \A st \in {ApplyPatches(LoopStart(files, backup_dir),
                                       SubSeq(ps, 1, i - 1))} :
                  (~st.raised /\ FailsSyntaxCheck(ps[i], st.files))
                     => ApplyPatch(st, ps[i]) = st
          /\ \A st \in {ApplyPatches(LoopStart(files, backup_dir),
                           SelectSeq(ps, LAMBDA q : ~BringsSyntaxError(q)))} :
                ps # <<>> =>
                  /\ files' = st.files
                  /\ backup_dir' = st.backup_dir
                  /\ modified_marker' # modified_marker
                        => modified_marker'.files = st.applied ]_vars

\* C30 witness: a cycle proposed a patch for claude_client.py that does not
\* compile and a valid one for web_learner.py; the first left no trace, the
\* second was written, backed up and listed.
C30_Witness ==
    /\ cycle \notin {NoCycle, PastCycle}
    /\ cycle.reply = <<Object(<<Patch("claude_client.py", <<"a">>, <<"x">>),
                               Patch("web_learner.py", <<"a">>, <<"b">>)>>)>>
    /\ Present(cycle.files["claude_client.py"].text, <<"a">>)
    /\ files["claude_client.py"] = cycle.files["claude_client.py"]
    /\ BackupEntry(backup_dir, "claude_client.py")
          = BackupEntry(cycle.backup_dir, "claude_client.py")
    /\ files["web_learner.py"] # cycle.files["web_learner.py"]
    /\ BackupEntry(backup_dir, "web_learner.py") = cycle.files["web_learner.py"]
    /\ modified_marker = [files |-> <<"web_learner.py">>]
    /\ proc = "down"

(***************************************************************************)
(* Claims about concurrent invocations (checked under SpecConc)            *)
(***************************************************************************)

SaveRan ==
    /\ evo_runs'.killed = evo_runs.killed
    /\ \/ evo_runs'.reflect > evo_runs.reflect
       \/ evo_runs'.learn > evo_runs.learn
       \/ evo_runs'.modify > evo_runs.modify
       \/ evo_runs'.restart > evo_runs.restart /\ evo_file' # evo_file

\* C32: after every save of the Evolution Document over an existing file the
\* .bak sibling holds the text the file had just before that save, and the
\* file holds the document that was saved.
C32_BackupIsPreviousVersion ==
    [][(SaveRan /\ evo_file # Absent)
          => (evo_bak' = evo_file /\ evo_file' \notin {Absent, Unreadable})]_vars

\* The failure-learning records a file holds.
Learnings(file) ==
    IF file \in {Absent, Unreadable} THEN {}
    ELSE {file.failure_learnings[i] : i \in 1..Len(file.failure_learnings)}

\* The save of reflect_and_improve at line 554 went through.
ReflectSaveStep == reflect_pc = "loaded" /\ reflect_pc' = "saved"

\* C36: the save of reflect_and_improve does not drop failure-learning
\* records that another task persisted between its load and its save: every
\* record in the file before the save is in the file after it.
C36_ReflectKeepsOthersEntries ==
    [][ReflectSaveStep => Learnings(evo_file) \subseteq Learnings(evo_file')]_vars

(***************************************************************************)
(* Claims about the markers across starts, cycles, timers and kills        *)
(* (checked under SpecGuard)                                               *)
(***************************************************************************)

\* C33: in every state on disk that starts, modification cycles, stability
\* timers and kills of the process can produce, the crashed marker is
\* present only if the modified marker is present.
C33_CrashedOnlyWithModified == crashed_marker => modified_marker # Absent

\* A modification cycle wrote the modified marker and ended the process
\* (evolution.py:723-728).
CycleEndsProcess ==
    /\ CycleStep
    /\ proc = "running" /\ proc' = "down"
    /\ modified_marker' # Absent

\* C34: whenever a modification cycle writes the modified marker and ends
\* the process, the crashed marker is absent, so that the next start takes
\* the patch as new and gives it its stability window.
C34_CycleLeavesNoCrashedMarker ==
    [][CycleEndsProcess => ~crashed_marker']_vars

\* C35: at every process start, if a source file on disk was overwritten by
\* a modification cycle and the modified marker has not been removed since
\* (neither by the stability timer nor by a rollback), the modified marker
\* is present.
C35_UnsettledPatchIsMarked ==
    (proc = "booting" /\ unsettled # {}) => modified_marker # Absent

(***************************************************************************)
(* Claims about the breaker's counters (checked under SpecCB)              *)
(***************************************************************************)

\* C37: in every reachable state of a breaker the open flag is set exactly
\* when the failure counter is at least FAILURE_THRESHOLD, an open breaker
\* has a last-failure time, and right after record_failure the success
\* counter is zero.
C37_OpenIffThresholdReached ==
    TheBreaker # Absent =>
        /\ TheBreaker.is_open <=> TheBreaker.failures >= FAILURE_THRESHOLD
        /\ TheBreaker.is_open => TheBreaker.last_failure_time # NoTime
        /\ cb_call = "record_failure" => TheBreaker.successes = 0

\* A failure recorded on an open breaker, past the threshold, after a
\* success had been counted.
C37_Witness ==
    /\ TheBreaker # Absent
    /\ TheBreaker.is_open
    /\ TheBreaker.failures > FAILURE_THRESHOLD
    /\ cb_call = "record_failure"
    /\ consec_failures < TheBreaker.failures

\* The breaker a call finds (created on first use) and the one it leaves.
BreakerBefore == GetCircuitBreaker(circuit_breakers, func_name)[func_name]
BreakerAfter == circuit_breakers'[func_name]

\* The step is a call of the method: every record_success and
\* record_failure changes a counter.
MethodStep(method) == circuit_breakers' # circuit_breakers /\ cb_call' = method

\* C38: record_success on a closed breaker leaves the failure counter as it
\* is; the failure counter goes down only in a step that closes an open
\* breaker; so the failure that brings the count since the last reset to
\* FAILURE_THRESHOLD opens the breaker, whatever successes came in between.
C38_SuccessKeepsFailureCount ==
    [][/\ (MethodStep("record_success") /\ ~BreakerBefore.is_open)
            => BreakerAfter.failures = BreakerBefore.failures
       /\ (circuit_breakers' # circuit_breakers
              /\ BreakerAfter.failures < BreakerBefore.failures)
            => (BreakerBefore.is_open /\ ~BreakerAfter.is_open)
       /\ (MethodStep("record_failure")
              /\ BreakerBefore.failures + 1 >= FAILURE_THRESHOLD)
            => BreakerAfter.is_open]_vars

\* The breaker has just opened on its fifth failure, and the failures were
\* not consecutive: a success was recorded among them.
C38_Witness ==
    /\ TheBreaker # Absent
    /\ TheBreaker.is_open
    /\ TheBreaker.failures = FAILURE_THRESHOLD
    /\ cb_call = "record_failure"
    /\ consec_failures > 0
    /\ consec_failures < FAILURE_THRESHOLD

(***************************************************************************)
(* Claims about the two wrappers (checked under SpecTwin)                  *)
(***************************************************************************)

\* The attempts, breaker records and sleeps of an invocation (without the
\* failure learning), what it returned and when.
Visible(inv) ==
    [inv EXCEPT !.log = SelectSeq(inv.log, LAMBDA e : e.ev # "learn")]

\* Both runs are over and the operation did the same in both.
SameScenario ==
    /\ twin # NoTwin
    /\ calls_left = 0
    /\ pc[1] = "done"
    /\ Len(run_trace) = Len(twin.trace)
    /\ \A i \in 1..Len(run_trace) : Shape(run_trace[i]) = Shape(twin.trace[i])

\* C39: for a non-critical operation that does the same in each attempt and
\* is invoked at the same times from the same breaker state, sync_wrapper
\* and async_wrapper make the same attempts and the same backoff sleeps,
\* leave the breaker, the failure tracker and the performance metrics the
\* same, and return the same value.
C39_WrappersAgree ==
    SameScenario =>
        /\ \A i \in 1..Len(run_trace) : Visible(run_trace[i]) = Visible(twin.trace[i])
        /\ circuit_breakers = twin.cb
        /\ error_patterns = twin.ep
        /\ performance_metrics = twin.pm

\* Both runs retried with backoff, exhausted their attempts and opened the
\* breaker, and a later invocation was refused.
C39_Witness ==
    /\ SameScenario
    /\ circuit_breakers[func_name].is_open
    /\ \E i \in 1..Len(run_trace) :
          \E j \in 1..Len(run_trace[i].log) : run_trace[i].log[j].ev = "sleep"
    /\ run_trace[Len(run_trace)].log = <<>>
    /\ run_trace[Len(run_trace)].outcome = "fallback"

====
